---------------------------- MODULE Spec2Model ----------------------------
(***************************************************************************)
(* A model of the patch-application engine: the strategy selector          *)
(* (getDiffStrategy), the Search-Replace strategy with its module-level    *)
(* similarity cache, the Optimized Unified strategy over its gap buffer,   *)
(* and the AST-Aware strategy with its syntax-tree cache.                  *)
(*                                                                         *)
(* Text is modelled as it is in the program: a string is a sequence of     *)
(* one-character strings, a document a sequence of lines.  Similarity      *)
(* scores are exact rationals <<numerator, denominator>>.                  *)
(***************************************************************************)
EXTENDS Integers, Sequences, FiniteSets, TLC

VARIABLES
    selCall,          \* selector: the last getDiffStrategy call, inputs and result
    similarityCache,  \* Search-Replace: the module-level LRUCache<string, number>
    srCall,           \* Search-Replace: the last applyDiff call, inputs and result
    srCalls,          \* Search-Replace: number of applyDiff calls made
    ouCall,           \* Optimized Unified: the last applyDiff call
    astCache,         \* AST-Aware: the instance's AstCache, entries in Map order
    astClock,         \* AST-Aware: the last value Date.now() returned
    astCall,          \* AST-Aware: the last applyDiff call, inputs and result
    astCalls,         \* AST-Aware: number of applyDiff calls made
    hotCache,         \* Smart Hybrid: the instance's hot cache, entries in LRU order
    shCall,           \* Smart Hybrid: the last applyDiff call, inputs and result
    shCalls,          \* Smart Hybrid: number of applyDiff calls made
    shTasks,          \* Smart Hybrid: the applyDiff calls in flight, each at an await
    shHashers,        \* Smart Hybrid: the instance's hashers and chunkHashes
    parCall,          \* Parallel: the last applyDiff call, inputs and result
    lru               \* Search-Replace: an LRUCache instance used on its own

vars == <<selCall, similarityCache, srCall, srCalls, ouCall,
          astCache, astClock, astCall, astCalls, hotCache, shCall, shCalls,
          shTasks, shHashers, parCall, lru>>

selVars == <<selCall>>
srVars == <<similarityCache, srCall, srCalls>>
ouVars == <<ouCall>>
astVars == <<astCache, astClock, astCall, astCalls>>
shVars == <<hotCache, shCall, shCalls, shTasks, shHashers>>
parVars == <<parCall>>
lruVars == <<lru>>

\* JavaScript values that may be absent are tagged records: undefined, a
\* number (thresholds are rationals <<numerator, denominator>>) or a FileStats
\* object.
Undefined == [kind |-> "undefined"]
Num(v) == [kind |-> "number", value |-> v]
FileStats(size, path) == [kind |-> "object", size |-> size, path |-> path]

\* The state of a component no call has been made on.
NoCall == [made |-> FALSE]

-----------------------------------------------------------------------------
(* Strings *)

\* The first index of character c in string s, 0 when absent.
RECURSIVE IndexFrom(_, _, _)
IndexFrom(s, c, i) ==
    IF i > Len(s) THEN 0
    ELSE IF s[i] = c THEN i
    ELSE IndexFrom(s, c, i + 1)

\* The last index of character c in string s, 0 when absent.
RECURSIVE LastIndexOf(_, _, _)
LastIndexOf(s, c, i) ==
    IF i = 0 THEN 0
    ELSE IF s[i] = c THEN i
    ELSE LastIndexOf(s, c, i - 1)

\* String.prototype.toLowerCase on the letters the model's paths use.
LowerChar(c) ==
    CASE c = "G" -> "g"
      [] c = "O" -> "o"
      [] c = "T" -> "t"
      [] c = "S" -> "s"
      [] OTHER -> c

toLowerCase(s) == [i \in 1..Len(s) |-> LowerChar(s[i])]

\* filePath.split(".").pop(): the text after the last ".", the whole string
\* when it holds no ".".
SplitDotPop(s) ==
    LET k == LastIndexOf(s, ".", Len(s))
    IN  SubSeq(s, k + 1, Len(s))

-----------------------------------------------------------------------------
(* Strategy selector *)

LARGE_FILE_THRESHOLD == 1024 * 1024

AstExtensions ==
    { <<"j","s">>, <<"j","s","x">>, <<"t","s">>, <<"t","s","x">>, <<"g","o">> }

HybridExtensions ==
    { <<"j","s","o","n">>, <<"t","x","t">>, <<"m","d">>, <<"y","m","l">>,
      <<"y","a","m","l">>, <<"g","o">> }

\* filePath is Undefined or [kind |-> "string", value |-> chars].
Str(s) == [kind |-> "string", value |-> s]

hasAstSupport(filePath) ==
    IF filePath.kind = "undefined" \/ filePath.value = <<>> THEN FALSE
    ELSE toLowerCase(SplitDotPop(filePath.value)) \in AstExtensions

\* fileStats?.size && fileStats.size > LARGE_FILE_THRESHOLD, and its <= twin:
\* a size of 0 is falsy.
SizeAbove_Inclusive(fileStats) ==
    fileStats.kind = "object" /\ fileStats.size # 0
        /\ fileStats.size >= LARGE_FILE_THRESHOLD

SizeAbove(fileStats) ==
    fileStats.kind = "object" /\ fileStats.size # 0
        /\ fileStats.size > LARGE_FILE_THRESHOLD

SizeWithin(fileStats) ==
    fileStats.kind = "object" /\ fileStats.size # 0
        /\ fileStats.size <= LARGE_FILE_THRESHOLD

\* The body of getDiffStrategy after its arguments are sorted out.  The result
\* names the strategy constructed and the threshold it was constructed with
\* (SmartHybridStrategy takes none).
SelectStrategy(fileStats, threshold) ==
    LET path == IF fileStats.kind = "object" THEN Str(fileStats.path) ELSE Undefined
    IN  IF SizeAbove(fileStats)
            THEN [strategy |-> "Parallel", threshold |-> threshold]
        ELSE IF hasAstSupport(path)
            THEN [strategy |-> "AstAware", threshold |-> threshold]
        ELSE IF SizeWithin(fileStats)
            THEN LET ext == toLowerCase(SplitDotPop(fileStats.path))
                 IN  IF ext # <<>> /\ ext \in HybridExtensions
                         THEN [strategy |-> "SmartHybrid", threshold |-> Undefined]
                     ELSE [strategy |-> "OptimizedUnified", threshold |-> threshold]
        ELSE [strategy |-> "SearchReplace", threshold |-> threshold]

getDiffStrategy(model, fileStatsOrThreshold, fuzzyMatchThreshold) ==
    LET threshold == IF fileStatsOrThreshold.kind = "number" THEN fileStatsOrThreshold
                     ELSE fuzzyMatchThreshold
        fileStats == IF fileStatsOrThreshold.kind = "object" THEN fileStatsOrThreshold
                     ELSE Undefined
    IN  SelectStrategy(fileStats, threshold)

\* AstAwareStrategy.detectLanguage and isLanguageSupported.
detectLanguage(filePath) ==
    IF filePath.kind = "undefined" \/ filePath.value = <<>> THEN "javascript"
    ELSE LET extension == toLowerCase(SplitDotPop(filePath.value))
         IN  CASE extension \in { <<"j","s">>, <<"j","s","x">> } -> "javascript"
               [] extension \in { <<"t","s">>, <<"t","s","x">> } -> "typescript"
               [] OTHER -> "unknown"

isLanguageSupported_WithUnknown(language) ==
    language \in {"javascript", "typescript", "unknown"}

isLanguageSupported(language) == language \in {"javascript", "typescript"}

-----------------------------------------------------------------------------
(* JavaScript array and string primitives, on 0-based indices *)

Min(a, b) == IF a <= b THEN a ELSE b
Max(a, b) == IF a >= b THEN a ELSE b

\* A relative index as Array.prototype.slice and splice resolve it.
ClampIndex(i, len) == IF i < 0 THEN Max(len + i, 0) ELSE Min(i, len)

\* Array.prototype.slice(start, end).
JsSlice(arr, start, end) ==
    SubSeq(arr, ClampIndex(start, Len(arr)) + 1, ClampIndex(end, Len(arr)))

\* Array.prototype.splice(start, deleteCount, ...items): the array afterwards.
JsSplice(arr, start, deleteCount, items) ==
    LET s == ClampIndex(start, Len(arr))
        d == Min(Max(deleteCount, 0), Len(arr) - s)
    IN  SubSeq(arr, 1, s) \o items \o SubSeq(arr, s + d + 1, Len(arr))

\* String.prototype.split(sep) for a one-character separator: always at least
\* one piece.
RECURSIVE Split(_, _)
Split(s, sep) ==
    LET k == IndexFrom(s, sep, 1)
    IN  IF k = 0 THEN <<s>>
        ELSE <<SubSeq(s, 1, k - 1)>> \o Split(SubSeq(s, k + 1, Len(s)), sep)

\* Array.prototype.join(sep) of strings, sep a string.
RECURSIVE Join(_, _)
Join(parts, sep) ==
    IF parts = <<>> THEN <<>>
    ELSE IF Len(parts) = 1 THEN parts[1]
    ELSE parts[1] \o sep \o Join(Tail(parts), sep)

\* The characters \s matches and trim() strips.
IsSpace(c) == c \in {" ", "\t", "\n", "\r"}

RECURSIVE TrimStart(_)
TrimStart(s) ==
    IF s # <<>> /\ IsSpace(s[1]) THEN TrimStart(Tail(s)) ELSE s

RECURSIVE TrimEnd(_)
TrimEnd(s) ==
    IF s # <<>> /\ IsSpace(s[Len(s)]) THEN TrimEnd(SubSeq(s, 1, Len(s) - 1)) ELSE s

\* String.prototype.trim().
Trim(s) == TrimEnd(TrimStart(s))

-----------------------------------------------------------------------------
(* Optimized Unified strategy: the gap buffer *)

GAP_BUFFER_SIZE == 1024

\* new GapBuffer(content, gapSize): the gap's "" fillers, then the characters;
\* a cell is a string of length 0 or 1.
NewGapBuffer(content, gapSize) ==
    [buffer |-> [i \in 1..gapSize |-> <<>>] \o [i \in 1..Len(content) |-> <<content[i]>>],
     gapStart |-> 0,
     gapEnd |-> gapSize]

moveGap(gb, pos) ==
    IF pos = gb.gapStart THEN gb
    ELSE LET gapSize == gb.gapEnd - gb.gapStart
         IN  IF pos < gb.gapStart
             THEN LET moveSize == gb.gapStart - pos
                      temp == JsSlice(gb.buffer, pos, gb.gapStart)
                  IN  [buffer |-> JsSplice(gb.buffer, gb.gapEnd - moveSize, moveSize, temp),
                       gapStart |-> pos,
                       gapEnd |-> pos + gapSize]
             ELSE LET moveSize == pos - gb.gapStart
                      temp == JsSlice(gb.buffer, gb.gapEnd, gb.gapEnd + moveSize)
                  IN  [buffer |-> JsSplice(gb.buffer, gb.gapStart, moveSize, temp),
                       gapStart |-> pos,
                       gapEnd |-> pos + gapSize]

\* GapBuffer.insert(pos, content); content is a string.
GapInsert(gb, pos, content) ==
    LET g1 == moveGap(gb, pos)
        chars == [i \in 1..Len(content) |-> <<content[i]>>]
        room == g1.gapEnd - g1.gapStart
        g2 == IF Len(chars) > room
              THEN [g1 EXCEPT
                      !.buffer = JsSplice(g1.buffer, g1.gapEnd, 0,
                                          [i \in 1..(Len(chars) - room) |-> <<>>]),
                      !.gapEnd = g1.gapEnd + (Len(chars) - room)]
              ELSE g1
    IN  [g2 EXCEPT !.buffer = JsSplice(g2.buffer, g2.gapStart, Len(chars), chars),
                   !.gapStart = g2.gapStart + Len(chars)]

\* GapBuffer.replace(start, end, content).
GapReplace(gb, start, end, content) ==
    LET g1 == moveGap(gb, start)
        g2 == [g1 EXCEPT !.buffer = JsSplice(g1.buffer, g1.gapStart, end - start, <<>>)]
    IN  GapInsert(g2, start, content)

\* Array.prototype.join("") of cells that each hold "" (a gap filler, the
\* empty string <<>>) or one character.
RECURSIVE Concat(_)
Concat(cells) ==
    IF cells = <<>> THEN <<>> ELSE cells[1] \o Concat(Tail(cells))

IsFilled(cell) == cell # <<>>

JoinCells(cells) == Concat(SelectSeq(cells, IsFilled))

\* GapBuffer.slice(start, end).
GapSlice(gb, start, end) ==
    LET s == IF start >= gb.gapStart /\ start < gb.gapEnd THEN gb.gapEnd ELSE start
        e == IF end >= gb.gapStart /\ end < gb.gapEnd THEN gb.gapEnd ELSE end
    IN  JoinCells(JsSlice(gb.buffer, s, e))

\* GapBuffer.toString().
GapToString(gb) ==
    JoinCells(JsSlice(gb.buffer, 0, gb.gapStart)
                \o JsSlice(gb.buffer, gb.gapEnd, Len(gb.buffer)))

-----------------------------------------------------------------------------
(* Optimized Unified strategy *)

\* A line of the diff text is a record: a line that starts with "@@" and that
\* the header pattern /@@ -(\d+)(?:,\d+)? \+(\d+)(?:,\d+)? @@/ matches (with
\* the two numbers it captures), a line that starts with "@@" and that the
\* pattern does not match, or any other line, with its text.
Header(oldStart, newStart) ==
    [kind |-> "header", oldStart |-> oldStart, newStart |-> newStart]
BadHeader == [kind |-> "badheader"]
Line(text) == [kind |-> "line", text |-> text]

\* line.startsWith(prefix) for a one-character prefix.
StartsWith(line, c) ==
    line.kind = "line" /\ line.text # <<>> /\ line.text[1] = c

\* line.startsWith("@@").
StartsWithAtAt(line) == line.kind \in {"header", "badheader"}

OU_CHUNK_SIZE == 1024 * 1024

\* parseHunkHeader: the old start and the NEW start (the pattern's two capture
\* groups; the counts are not captured), or a throw.
parseHunkHeader(line) ==
    IF line.kind = "header"
    THEN [threw |-> FALSE, value |-> <<line.oldStart, line.newStart>>]
    ELSE [threw |-> TRUE, error |-> "Invalid hunk header format"]

\* The loop of parseUnifiedDiff from line i on; cur holds currentHunk (empty
\* for null).
RECURSIVE ParseUnifiedFrom(_, _, _, _)
ParseUnifiedFrom(lines, i, hunks, cur) ==
    IF i > Len(lines) THEN [threw |-> FALSE, hunks |-> hunks \o cur]
    ELSE LET line == lines[i]
         IN  IF StartsWithAtAt(line)
             THEN LET h == parseHunkHeader(line)
                  IN  IF h.threw THEN [threw |-> TRUE, error |-> h.error]
                      ELSE ParseUnifiedFrom(lines, i + 1, hunks \o cur,
                             << [start |-> h.value[1],
                                 end |-> h.value[1] + h.value[2],
                                 removed |-> <<>>, added |-> <<>>, context |-> <<>>] >>)
             ELSE IF cur # <<>>
             THEN LET c == cur[1]
                      rest == Tail(line.text)
                      c2 == IF StartsWith(line, "-")
                                THEN [c EXCEPT !.removed = Append(@, rest)]
                            ELSE IF StartsWith(line, "+")
                                THEN [c EXCEPT !.added = Append(@, rest)]
                            ELSE IF StartsWith(line, " ")
                                THEN [c EXCEPT !.context = Append(@, rest)]
                            ELSE c
                  IN  ParseUnifiedFrom(lines, i + 1, hunks, <<c2>>)
             ELSE ParseUnifiedFrom(lines, i + 1, hunks, cur)

parseUnifiedDiff(diffLines) == ParseUnifiedFrom(diffLines, 1, <<>>, <<>>)

\* hunk.context.every((line, i) => contextLines[i].trim() === line.trim()):
\* "ok", "mismatch", or "typeerror" when contextLines[i] is undefined.
RECURSIVE EveryContext(_, _, _)
EveryContext(context, contextLines, i) ==
    IF i > Len(context) THEN "ok"
    ELSE IF i > Len(contextLines) THEN "typeerror"
    ELSE IF Trim(contextLines[i]) = Trim(context[i])
        THEN EveryContext(context, contextLines, i + 1)
    ELSE "mismatch"

verifyContext(gb, hunk) ==
    LET content == GapSlice(gb, hunk.start, hunk.end)
        contextLines == Split(content, "\n")
    IN  EveryContext(hunk.context, contextLines, 1)

\* processHunksSequentially from hunk i on: the buffer afterwards, or a throw.
RECURSIVE ProcessHunksFrom(_, _, _)
ProcessHunksFrom(hunks, i, gb) ==
    IF i > Len(hunks) THEN [threw |-> FALSE, gb |-> gb]
    ELSE LET v == verifyContext(gb, hunks[i])
         IN  IF v = "typeerror"
                 THEN [threw |-> TRUE, error |-> "Cannot read properties of undefined"]
             ELSE IF v = "mismatch"
                 THEN [threw |-> TRUE, error |-> "Context mismatch in hunk"]
             ELSE ProcessHunksFrom(hunks, i + 1,
                     GapReplace(gb, hunks[i].start, hunks[i].end,
                                Join(hunks[i].added, <<"\n">>)))

processHunksSequentially(hunks, gb) == ProcessHunksFrom(hunks, 1, gb)

\* splitHunksIntoChunks: slices of Math.ceil(hunks.length / hardwareConcurrency).
RECURSIVE SplitHunksFrom(_, _, _)
SplitHunksFrom(hunks, i, chunkSize) ==
    IF i >= Len(hunks) THEN <<>>
    ELSE <<JsSlice(hunks, i, i + chunkSize)>> \o SplitHunksFrom(hunks, i + chunkSize, chunkSize)

splitHunksIntoChunks(hunks, hardwareConcurrency) ==
    SplitHunksFrom(hunks, 0, (Len(hunks) + hardwareConcurrency - 1) \div hardwareConcurrency)

\* processHunksInParallel: chunks.map runs processHunksSequentially on each
\* chunk in turn, synchronously, on the one buffer; the first throw leaves map.
RECURSIVE ProcessChunksFrom(_, _, _)
ProcessChunksFrom(chunks, i, gb) ==
    IF i > Len(chunks) THEN [threw |-> FALSE, gb |-> gb]
    ELSE LET r == processHunksSequentially(chunks[i], gb)
         IN  IF r.threw THEN r ELSE ProcessChunksFrom(chunks, i + 1, r.gb)

processHunksInParallel(hunks, gb, hardwareConcurrency) ==
    ProcessChunksFrom(splitHunksIntoChunks(hunks, hardwareConcurrency), 1, gb)

RECURSIVE SumAdded(_)
SumAdded(hunks) ==
    IF hunks = <<>> THEN 0 ELSE Len(hunks[1].added) + SumAdded(Tail(hunks))

OuFailure(message) == [success |-> FALSE, error |-> message]

\* OptimizedUnifiedStrategy.applyDiff; size is options.fileStats.size (0 when
\* no fileStats is given: both are falsy).
OuApplyDiff(originalContent, diffLines, size, hardwareConcurrency) ==
    LET buffer == NewGapBuffer(originalContent, GAP_BUFFER_SIZE)
        parsed == parseUnifiedDiff(diffLines)
    IN  IF parsed.threw THEN OuFailure(parsed.error)
        ELSE LET done == IF size # 0 /\ size > OU_CHUNK_SIZE
                         THEN processHunksInParallel(parsed.hunks, buffer, hardwareConcurrency)
                         ELSE processHunksSequentially(parsed.hunks, buffer)
             IN  IF done.threw THEN OuFailure(done.error)
                 ELSE [success |-> TRUE,
                       content |-> GapToString(done.gb),
                       appliedLines |-> SumAdded(parsed.hunks)]

-----------------------------------------------------------------------------
(* Search-Replace: murmurHash3 over 32-bit words                           *)
(* A 32-bit word is <<high 16 bits, low 16 bits>>; every operation is the  *)
(* JavaScript one modulo 2^32.                                             *)

\* String.prototype.charCodeAt for the characters of the model.
CharCode(c) ==
    CASE c = "\t" -> 9
      [] c = "\n" -> 10
      [] c = " " -> 32
      [] c = "a" -> 97
      [] c = "b" -> 98
      [] c = "c" -> 99
      [] c = "x" -> 120
      [] c = "|" -> 124

\* Bitwise exclusive or of two naturals.
RECURSIVE XorNat(_, _)
XorNat(a, b) ==
    IF a = 0 THEN b
    ELSE IF b = 0 THEN a
    ELSE ((a + b) % 2) + (2 * XorNat(a \div 2, b \div 2))

Xor32(a, b) == <<XorNat(a[1], b[1]), XorNat(a[2], b[2])>>

Add32(a, b) ==
    LET lo == a[2] + b[2]
    IN  <<(a[1] + b[1] + (lo \div 65536)) % 65536, lo % 65536>>

\* The product of two 16-bit naturals as a 32-bit word.
Mul16(x, y) ==
    LET t == (x \div 256) * y
        u == ((t % 256) * 256) + ((x % 256) * y)
    IN  <<((t \div 256) + (u \div 65536)) % 65536, u % 65536>>

\* Math.imul: the low 32 bits of the product.
Imul(a, b) ==
    LET low == Mul16(a[2], b[2])
        cross == (Mul16(a[1], b[2])[2] + Mul16(a[2], b[1])[2]) % 65536
    IN  <<(low[1] + cross) % 65536, low[2]>>

\* w << r, for 0 < r < 16.
Shl32(w, r) ==
    <<(((w[1] * (2^r)) % 65536) + (w[2] \div (2^(16 - r)))) % 65536,
      (w[2] * (2^r)) % 65536>>

\* w >>> r, for 0 < r < 32.
Shr32(w, r) ==
    IF r >= 16 THEN <<0, w[1] \div (2^(r - 16))>>
    ELSE <<w[1] \div (2^r), (w[2] \div (2^r)) + ((w[1] % (2^r)) * (2^(16 - r)))>>

\* (w << r) | (w >>> (32 - r)): the two parts share no bit.
Rotl32(w, r) == Add32(Shl32(w, r), Shr32(w, 32 - r))

MurmurSeed == <<4660, 43981>>     \* 0x1234abcd
MurmurC1 == <<52382, 11601>>      \* 0xcc9e2d51
MurmurC2 == <<7047, 13715>>       \* 0x1b873593
MurmurN == <<58964, 27492>>       \* 0xe6546b64
MurmurF1 == <<34283, 51819>>      \* 0x85ebca6b
MurmurF2 == <<49842, 44597>>      \* 0xc2b2ae35

\* k = Math.imul(k, c1); k = rotl(k, 15); k = Math.imul(k, c2).
MurmurMixK(k) == Imul(Rotl32(Imul(k, MurmurC1), 15), MurmurC2)

\* The loop over whole 4-character chunks, from chunk i (0-based) on.
RECURSIVE MurmurBody(_, _, _)
MurmurBody(str, i, hash) ==
    IF i >= Len(str) \div 4 THEN hash
    ELSE MurmurBody(str, i + 1,
             Add32(Imul(Rotl32(Xor32(hash,
                                     MurmurMixK(
                                         << ((CharCode(str[4 * i + 4]) % 256) * 256)
                                               + (CharCode(str[4 * i + 3]) % 256),
                                            ((CharCode(str[4 * i + 2]) % 256) * 256)
                                               + (CharCode(str[4 * i + 1]) % 256) >>)),
                               13),
                        <<0, 5>>),
                   MurmurN))

\* The remaining 1..3 characters.
MurmurTailK(str, n, remaining) ==
    Xor32(Xor32(IF remaining >= 3 THEN <<CharCode(str[n - 2]), 0>> ELSE <<0, 0>>,
                IF remaining >= 2 THEN <<0, CharCode(str[n - 1]) * 256>> ELSE <<0, 0>>),
          <<0, CharCode(str[n])>>)

MurmurTail(str, hash) ==
    IF Len(str) % 4 > 0
    THEN Xor32(hash, MurmurMixK(MurmurTailK(str, Len(str), Len(str) % 4)))
    ELSE hash

\* hash ^= hash >>> r.
MurmurXorShift(hash, r) == Xor32(hash, Shr32(hash, r))

\* The finalization: hash ^= str.length and the three xor-shifts around the
\* two multiplications.
MurmurFinal(hash, length) ==
    MurmurXorShift(
        Imul(MurmurXorShift(
                 Imul(MurmurXorShift(Xor32(hash, <<0, length>>), 16), MurmurF1),
                 13),
             MurmurF2),
        16)

murmurHash3(str) ==
    MurmurFinal(MurmurTail(str, MurmurBody(str, 0, MurmurSeed)), Len(str))

-----------------------------------------------------------------------------
(* Search-Replace: the similarity cache and getSimilarity *)

BUFFER_LINES == 20
MAX_CACHE_SIZE == 1000

\* Rationals <<numerator, denominator>> with a positive denominator.
RatGe(a, b) == a[1] * b[2] >= b[1] * a[2]
RatGt(a, b) == a[1] * b[2] > b[1] * a[2]
RatEq(a, b) == a[1] * b[2] = b[1] * a[2]
RatLt(a, b) == a[1] * b[2] < b[1] * a[2]

\* The cache is the Map's entries in insertion order.
CacheIndex(cache, key) ==
    LET hits == {i \in 1..Len(cache) : cache[i].key = key}
    IN  IF hits = {} THEN 0 ELSE CHOOSE i \in hits : TRUE

RemoveAt(seq, i) == SubSeq(seq, 1, i - 1) \o SubSeq(seq, i + 1, Len(seq))

\* A get that leaves the order of the Map alone.
LruGet_NoRefresh(cache, key) ==
    IF \E i \in 1..Len(cache) : cache[i].key = key
    THEN [hit |-> TRUE, value |-> cache[CacheIndex(cache, key)].value, cache |-> cache]
    ELSE [hit |-> FALSE, cache |-> cache]

\* LRUCache.get: a hit is deleted and set again, which moves it to the end.
LruGet(cache, key) ==
    LET i == CacheIndex(cache, key)
    IN  IF i = 0 THEN [hit |-> FALSE, cache |-> cache]
        ELSE [hit |-> TRUE, value |-> cache[i].value,
              cache |-> Append(RemoveAt(cache, i), cache[i])]

\* Map.prototype.set: a present key keeps its place.
MapSet(cache, key, value) ==
    LET i == CacheIndex(cache, key)
    IN  IF i = 0 THEN Append(cache, [key |-> key, value |-> value])
        ELSE [cache EXCEPT ![i].value = value]

\* LRUCache.set: a full cache first drops the first entry of the Map.
LruSet(cache, maxSize, key, value) ==
    MapSet(IF Len(cache) >= maxSize /\ cache # <<>> THEN Tail(cache) ELSE cache,
           key, value)

\* str.replace(/\s+/g, " "): every run of whitespace becomes one space.
RECURSIVE CollapseSpaces(_)
CollapseSpaces(s) ==
    IF s = <<>> THEN <<>>
    ELSE IF IsSpace(s[1])
        THEN <<" ">> \o CollapseSpaces(TrimStart(s))
    ELSE <<s[1]>> \o CollapseSpaces(Tail(s))

normalizeStr(str) == Trim(CollapseSpaces(str))

Min3(a, b, c) == Min(a, Min(b, c))

\* One row of the edit-distance table: prev is the row of the shorter prefix
\* of b, cur the cells of this row filled so far (cell k at index k + 1).
RECURSIVE LevRow(_, _, _, _)
LevRow(prev, a, c, cur) ==
    IF Len(cur) = Len(a) + 1 THEN cur
    ELSE LET i == Len(cur)
         IN  LevRow(prev, a, c,
                    Append(cur, Min3(prev[i + 1] + 1, cur[i] + 1,
                                     prev[i] + (IF a[i] = c THEN 0 ELSE 1))))

RECURSIVE LevRows(_, _, _, _)
LevRows(prev, a, b, j) ==
    IF j > Len(b) THEN prev
    ELSE LevRows(LevRow(prev, a, b[j], <<j>>), a, b, j + 1)

\* distance(a, b) of fastest-levenshtein: the edit distance.
distance(a, b) == LevRows([k \in 1..(Len(a) + 1) |-> k - 1], a, b, 1)[Len(a) + 1]

\* getSimilarity(original, search) on the cache given: the score and the cache
\* afterwards.
\* 1 - dist / maxLength.
SimilarityRatio(dist, maxLength) == <<maxLength - dist, maxLength>>

\* The score of two normalized strings: the exact check, the hash check and
\* the Levenshtein ratio.
SimilarityOf(normalizedOriginal, normalizedSearch) ==
    IF normalizedOriginal = normalizedSearch THEN <<1, 1>>
    ELSE IF murmurHash3(normalizedOriginal) = murmurHash3(normalizedSearch)
        THEN <<1, 1>>
    ELSE SimilarityRatio(distance(normalizedOriginal, normalizedSearch),
                         Max(Len(normalizedOriginal), Len(normalizedSearch)))

\* similarityCache.set(cacheKey, similarity); return similarity.
SimilarityStored(cache, cacheKey, similarity) ==
    [value |-> similarity,
     cache |-> LruSet(cache, MAX_CACHE_SIZE, cacheKey, similarity)]

\* A cached score is returned; any other is computed and stored.
SimilarityCached(cache, cached, cacheKey, original, search) ==
    IF cached.hit THEN [value |-> cached.value, cache |-> cached.cache]
    ELSE SimilarityStored(cache, cacheKey,
                          SimilarityOf(normalizeStr(original), normalizeStr(search)))

SimilarityKeyed(cache, cacheKey, original, search) ==
    SimilarityCached(cache, LruGet(cache, cacheKey), cacheKey, original, search)

getSimilarity(cache, original, search) ==
    IF search = <<>> THEN [value |-> <<1, 1>>, cache |-> cache]
    ELSE SimilarityKeyed(cache, original \o <<"|">> \o search, original, search)

-----------------------------------------------------------------------------
(* Search-Replace: applyDiff *)

searchMarker == <<"<", "<", "<", "<", "<", "<", "<", " ", "S", "E", "A", "R", "C", "H">>
dividerMarker == <<"=", "=", "=", "=", "=", "=", "=">>
replaceMarker == <<">", ">", ">", ">", ">", ">", ">", " ", "R", "E", "P", "L", "A", "C", "E">>

\* needle occurs in s at index i (1-based).
OccursAt(s, needle, i) ==
    /\ i >= 1
    /\ i + Len(needle) - 1 <= Len(s)
    /\ SubSeq(s, i, i + Len(needle) - 1) = needle

\* String.prototype.includes.
Includes_AnyChar(s, needle) ==
    \E i \in 1..Len(s), j \in 1..Len(needle) : s[i] = needle[j]

Includes(s, needle) == \E i \in 1..(Len(s) + 1) : OccursAt(s, needle, i)

\* str.split(/\r?\n/): the pieces between line feeds, a carriage return just
\* before a line feed belonging to the separator.
StripCr(piece) ==
    IF piece # <<>> /\ piece[Len(piece)] = "\r" THEN SubSeq(piece, 1, Len(piece) - 1)
    ELSE piece

SplitLines(s) ==
    LET pieces == Split(s, "\n")
    IN  [i \in 1..Len(pieces) |->
            IF i < Len(pieces) THEN StripCr(pieces[i]) ELSE pieces[i]]

\* diffContent.match(diffRegex) on the lines of the diff text: the first line
\* ending with the search marker that is followed, after at least one line, by
\* a divider line and then, after at least one more line, by a line starting
\* with the replace marker; both captures are the shortest possible.
IsSearchLine(line) ==
    OccursAt(line, searchMarker, Len(line) - Len(searchMarker) + 1)
IsDividerLine(line) == line = dividerMarker
IsReplaceLine(line) == OccursAt(line, replaceMarker, 1)

DiffMatches(lines) ==
    { m \in {i \in 1..Len(lines) : IsSearchLine(lines[i])}
             \X {j \in 1..Len(lines) : IsDividerLine(lines[j])}
             \X {k \in 1..Len(lines) : IsReplaceLine(lines[k])} :
        m[2] >= m[1] + 2 /\ m[3] >= m[2] + 2 }

MatchDiff(diffContent) ==
    LET lines == Split(diffContent, "\n")
        ms == DiffMatches(lines)
        i == CHOOSE a \in {m[1] : m \in ms} : \A b \in {m[1] : m \in ms} : a <= b
        js == {m[2] : m \in {n \in ms : n[1] = i}}
        j == CHOOSE a \in js : \A b \in js : a <= b
        ks == {m[3] : m \in {n \in ms : n[1] = i /\ n[2] = j}}
        k == CHOOSE a \in ks : \A b \in ks : a <= b
    IN  IF ms = {} THEN [matched |-> FALSE]
        ELSE [matched |-> TRUE,
              searchContent |-> Join(SubSeq(lines, i + 1, j - 1), <<"\n">>),
              replaceContent |-> Join(SubSeq(lines, j + 1, k - 1), <<"\n">>)]

\* The markers the diagnostic of a malformed diff lists as missing.
MissingMarkers(diffContent) ==
    {mk \in {searchMarker, dividerMarker, replaceMarker} : ~Includes(diffContent, mk)}

\* everyLineHasLineNumbers and stripLineNumbers of integrations/misc/extract-text:
\* a line-number prefix is optional blanks, digits, blanks and a bar.
Digits == {"0", "1", "2", "3", "4", "5", "6", "7", "8", "9"}

RECURSIVE SkipWhile(_, _)
SkipWhile(s, set) ==
    IF s # <<>> /\ s[1] \in set THEN SkipWhile(Tail(s), set) ELSE s

AfterLineNumber(line) ==
    LET a == SkipWhile(line, {" ", "\t"})
        b == SkipWhile(a, Digits)
        c == SkipWhile(b, {" ", "\t"})
    IN  IF a # b /\ b # c /\ c # <<>> /\ c[1] = "|"
        THEN [prefixed |-> TRUE,
              rest |-> IF Len(c) >= 2 /\ c[2] = " " THEN SubSeq(c, 3, Len(c))
                       ELSE Tail(c)]
        ELSE [prefixed |-> FALSE, rest |-> line]

everyLineHasLineNumbers(content) ==
    LET lines == SplitLines(content)
    IN  \A i \in 1..Len(lines) : AfterLineNumber(lines[i]).prefixed

stripLineNumbers(content) ==
    LET lines == SplitLines(content)
    IN  Join([i \in 1..Len(lines) |-> AfterLineNumber(lines[i]).rest], <<"\n">>)

\* JavaScript truthiness of an optional number.
Truthy(v) == v.kind = "number" /\ v.value # 0

\* getIndent: the leading run of tabs and blanks.
getIndent(line) == SubSeq(line, 1, Len(line) - Len(SkipWhile(line, {"\t", " "})))

\* arr[0] || "" for an array of strings.
FirstOrEmpty(arr) == IF arr = <<>> THEN <<>> ELSE arr[1]

\* The sliding-window scan from index i (0-based): st carries matchIndex,
\* bestMatchScore, bestMatchContent and the similarity cache.
RECURSIVE ScanFrom(_, _, _, _, _, _, _)

\* The best match after the window at i scored sim.
ScanScored(st, i, chunk, sim) ==
    IF RatGt(sim.value, st.bestMatchScore)
    THEN [matchIndex |-> i, bestMatchScore |-> sim.value,
          bestMatchContent |-> chunk, cache |-> sim.cache]
    ELSE [st EXCEPT !.cache = sim.cache]

\* if (bestMatchScore >= 0.95) break; otherwise the next window.
ScanOn(st, originalLines, searchChunk, searchHash, windowSize, i, maxIndex) ==
    IF RatGe(st.bestMatchScore, <<95, 100>>) THEN st
    ELSE ScanFrom(st, originalLines, searchChunk, searchHash, windowSize, i + 1,
                  maxIndex)

\* The window at i, whose text is chunk.
ScanWindow(st, originalLines, searchChunk, searchHash, windowSize, i, maxIndex, chunk) ==
    IF murmurHash3(chunk) = searchHash
        THEN [st EXCEPT !.matchIndex = i, !.bestMatchScore = <<1, 1>>,
                        !.bestMatchContent = chunk]
    ELSE IF i % 3 = 0
        THEN ScanOn(ScanScored(st, i, chunk, getSimilarity(st.cache, chunk, searchChunk)),
                    originalLines, searchChunk, searchHash, windowSize, i, maxIndex)
    ELSE ScanFrom(st, originalLines, searchChunk, searchHash, windowSize, i + 1,
                  maxIndex)

ScanFrom(st, originalLines, searchChunk, searchHash, windowSize, i, maxIndex) ==
    IF i >= maxIndex THEN st
    ELSE ScanWindow(st, originalLines, searchChunk, searchHash, windowSize, i, maxIndex,
                    Join(JsSlice(originalLines, i, i + windowSize), <<"\n">>))

\* Every replacement line at the indentation of the matched line.
IndentReplaceLine_Flat(line, originalIndent, searchBaseLevel) ==
    originalIndent \o Trim(line)

\* The indentation of one replacement line.
IndentReplaceLine(line, originalIndent, searchBaseLevel) ==
    LET currentIndent == getIndent(line)
        relativeLevel == Len(currentIndent) - searchBaseLevel
        finalIndent ==
            IF relativeLevel < 0
            THEN JsSlice(originalIndent, 0, Max(0, Len(originalIndent) + relativeLevel))
            ELSE originalIndent \o JsSlice(currentIndent, searchBaseLevel, Len(currentIndent))
    IN  finalIndent \o Trim(line)

\* The failure of lines 379-405: the scores the diagnostic prints.
SrNoMatch(st, fuzzyThreshold) ==
    [success |-> FALSE, error |-> "NoMatch",
     similarity |-> st.bestMatchScore,
     similarityPercent |-> (st.bestMatchScore[1] * 100) \div st.bestMatchScore[2],
     thresholdPercent |-> (fuzzyThreshold[1] * 100) \div fuzzyThreshold[2],
     bestMatch |-> st.bestMatchContent,
     matchIndex |-> st.matchIndex]

\* Lines 407-455: the replacement at matchIndex.
SrReplaceAt(st, originalLines, searchLines, replaceLines, lineEnding) ==
    LET matchIndex == st.matchIndex
        matchedLines == JsSlice(originalLines, matchIndex, matchIndex + Len(searchLines))
        originalIndent == getIndent(FirstOrEmpty(matchedLines))
        searchBaseLevel == Len(getIndent(FirstOrEmpty(searchLines)))
        indentedReplaceLines ==
            [n \in 1..Len(replaceLines) |->
                IndentReplaceLine(replaceLines[n], originalIndent, searchBaseLevel)]
        finalParts ==
            (IF matchIndex > 0
                THEN <<Join(JsSlice(originalLines, 0, matchIndex), lineEnding)>>
                ELSE <<>>)
            \o <<Join(indentedReplaceLines, lineEnding)>>
            \o (IF matchIndex + Len(searchLines) < Len(originalLines)
                THEN <<Join(JsSlice(originalLines, matchIndex + Len(searchLines),
                                    Len(originalLines)), lineEnding)>>
                ELSE <<>>)
    IN  [success |-> TRUE,
         content |-> Join(finalParts, lineEnding),
         appliedLines |-> Len(indentedReplaceLines),
         accuracyScore |-> st.bestMatchScore,
         matchIndex |-> matchIndex]

\* Lines 323-345: the state after the check of the lines startLine..endLine.
SrExact(cache, ranged, exactStartIndex, originalChunk, exact, fuzzyThreshold) ==
    IF ranged /\ RatGe(exact.value, fuzzyThreshold)
    THEN [matchIndex |-> exactStartIndex, bestMatchScore |-> exact.value,
          bestMatchContent |-> originalChunk, cache |-> exact.cache]
    ELSE [matchIndex |-> -1, bestMatchScore |-> <<0, 1>>, bestMatchContent |-> <<>>,
          cache |-> IF ranged THEN exact.cache ELSE cache]

SrExactChunk(cache, ranged, exactStartIndex, originalChunk, searchChunk, fuzzyThreshold) ==
    SrExact(cache, ranged, exactStartIndex, originalChunk,
            getSimilarity(cache, originalChunk, searchChunk), fuzzyThreshold)

\* Lines 347-377: if (matchIndex === -1) the scan of the search window.
SrScan(st, originalLines, searchChunk, windowSize, searchStartIndex, searchEndIndex) ==
    IF st.matchIndex # -1 THEN st
    ELSE ScanFrom(st, originalLines, searchChunk, murmurHash3(searchChunk), windowSize,
                  searchStartIndex, searchEndIndex - windowSize + 1)

\* Lines 379-455: the failure or the replacement.
SrOutcome(st, originalLines, searchLines, replaceLines, lineEnding, fuzzyThreshold) ==
    IF st.matchIndex = -1 \/ RatLt(st.bestMatchScore, fuzzyThreshold)
        THEN [result |-> SrNoMatch(st, fuzzyThreshold), cache |-> st.cache]
    ELSE [result |-> SrReplaceAt(st, originalLines, searchLines, replaceLines, lineEnding),
          cache |-> st.cache]

SrLocate(cache, originalLines, searchLines, searchChunk, ranged, startLine, endLine, fuzzyThreshold, bufferLines) ==
    SrScan(SrExactChunk(cache, ranged, startLine.value - 1,
                        Join(JsSlice(originalLines, startLine.value - 1, endLine.value),
                             <<"\n">>),
                        searchChunk, fuzzyThreshold),
           originalLines, searchChunk, Len(searchLines),
           IF ranged THEN Max(0, startLine.value - (bufferLines + 1)) ELSE 0,
           IF ranged THEN Min(Len(originalLines), endLine.value + bufferLines)
           ELSE Len(originalLines))

SrRanged(cache, originalLines, searchLines, replaceLines, lineEnding, ranged, startLine, endLine, fuzzyThreshold, bufferLines) ==
    IF ranged /\ (startLine.value - 1 < 0 \/ endLine.value - 1 > Len(originalLines)
                    \/ startLine.value - 1 > endLine.value - 1)
        THEN [result |-> [success |-> FALSE, error |-> "InvalidRange"], cache |-> cache]
    ELSE SrOutcome(SrLocate(cache, originalLines, searchLines,
                            Join(searchLines, <<"\n">>), ranged, startLine, endLine,
                            fuzzyThreshold, bufferLines),
                   originalLines, searchLines, replaceLines, lineEnding, fuzzyThreshold)

\* Lines 315-455: the search for the match and the replacement.
SrLocateAndReplace(cache, originalLines, searchLines, replaceLines, lineEnding, startLine, endLine, fuzzyThreshold, bufferLines) ==
    SrRanged(cache, originalLines, searchLines, replaceLines, lineEnding,
             Truthy(startLine) /\ Truthy(endLine), startLine, endLine, fuzzyThreshold,
             bufferLines)

\* Lines 292-295: both blocks lose their line numbers, or neither does.
SrStripped(searchContent, replaceContent) ==
    IF everyLineHasLineNumbers(searchContent) /\ everyLineHasLineNumbers(replaceContent)
    THEN [searchContent |-> stripLineNumbers(searchContent),
          replaceContent |-> stripLineNumbers(replaceContent)]
    ELSE [searchContent |-> searchContent, replaceContent |-> replaceContent]

\* content === "" ? [] : content.split(/\r?\n/).
SrLinesOf(content) == IF content = <<>> THEN <<>> ELSE SplitLines(content)

\* Lines 301-455: the checks of an empty search block, then the replacement.
SrApplyLines(cache, originalContent, searchLines, replaceLines, startLine, endLine, fuzzyThreshold, bufferLines) ==
    IF searchLines = <<>> /\ ~Truthy(startLine)
        THEN [result |-> [success |-> FALSE, error |-> "EmptySearchNeedsStartLine"],
              cache |-> cache]
    ELSE IF /\ searchLines = <<>> /\ Truthy(startLine) /\ Truthy(endLine)
            /\ startLine.value # endLine.value
        THEN [result |-> [success |-> FALSE, error |-> "EmptySearchNeedsSameLine"],
              cache |-> cache]
    ELSE SrLocateAndReplace(cache, SplitLines(originalContent), searchLines, replaceLines,
                            IF Includes(originalContent, <<"\r", "\n">>)
                            THEN <<"\r", "\n">> ELSE <<"\n">>,
                            startLine, endLine, fuzzyThreshold, bufferLines)

SrApplyStripped(cache, originalContent, blocks, startLine, endLine, fuzzyThreshold, bufferLines) ==
    SrApplyLines(cache, originalContent, SrLinesOf(blocks.searchContent),
                 SrLinesOf(blocks.replaceContent), startLine, endLine, fuzzyThreshold,
                 bufferLines)

SrApplyMatch(cache, originalContent, diffContent, m, startLine, endLine, fuzzyThreshold, bufferLines) ==
    IF ~m.matched
        THEN [result |-> [success |-> FALSE, error |-> "InvalidFormat",
                          missing |-> MissingMarkers(diffContent)],
              cache |-> cache]
    ELSE SrApplyStripped(cache, originalContent,
                         SrStripped(m.searchContent, m.replaceContent),
                         startLine, endLine, fuzzyThreshold, bufferLines)

\* SearchReplaceDiffStrategy.applyDiff of an instance constructed with
\* fuzzyThreshold and bufferLines, run on the similarity cache given: the
\* DiffResult and the cache afterwards.
SrApplyDiff(cache, originalContent, diffContent, startLine, endLine, fuzzyThreshold, bufferLines) ==
    SrApplyMatch(cache, originalContent, diffContent, MatchDiff(diffContent), startLine,
                 endLine, fuzzyThreshold, bufferLines)

-----------------------------------------------------------------------------
(* AST-Aware strategy *)

\* The statements the parser accepts in the model: one per line; any other
\* line that is not blank is a syntax error.
AstStatements == { <<"a", ";">>, <<"b", ";">> }

IsStatementLine(line) == Trim(line) # <<>>

\* parser.parse(code): the File node, whose statements are at program.body, or
\* a throw.
ParseProgram(code) ==
    LET lines == SelectSeq(Split(code, "\n"), IsStatementLine)
    IN  IF \E i \in 1..Len(lines) : Trim(lines[i]) \notin AstStatements
        THEN [threw |-> TRUE, error |-> "SyntaxError"]
        ELSE [threw |-> FALSE,
              ast |-> [type |-> "File",
                       program |-> [type |-> "Program",
                                    body |-> [i \in 1..Len(lines) |-> Trim(lines[i])]]]]

parseToAst(content, language) == ParseProgram(content)

\* generate(ast).code.
generate(ast) == Join(ast.program.body, <<"\n">>)

\* The index of the entry of content in the cache, 0 when absent; the sha256
\* of the content stands for the content.
AstCacheIndex(cache, content) ==
    LET hits == {i \in 1..Len(cache) : cache[i].key = content}
    IN  IF hits = {} THEN 0 ELSE CHOOSE i \in hits : TRUE

\* AstCache.get at clock value now.
AstCacheGet(cache, content, now) ==
    LET i == AstCacheIndex(cache, content)
    IN  IF i = 0 THEN [hit |-> FALSE, cache |-> cache]
        ELSE [hit |-> TRUE, ast |-> cache[i].ast,
              cache |-> [cache EXCEPT ![i].lastUsed = now]]

\* The forEach of AstCache.set from entry i on: the key chosen so far (0 for
\* the empty string) and the smallest lastUsed seen.
RECURSIVE AstOldestFrom(_, _, _, _)
AstOldestFrom(cache, i, oldest, oldestKey) ==
    IF i > Len(cache) THEN oldestKey
    ELSE IF cache[i].lastUsed < oldest
        THEN AstOldestFrom(cache, i + 1, cache[i].lastUsed, i)
    ELSE AstOldestFrom(cache, i + 1, oldest, oldestKey)

\* AstCache.set at clock value now.
AstCacheSet(cache, maxSize, content, ast, now) ==
    LET oldestKey == AstOldestFrom(cache, 1, now, 0)
        kept == IF Len(cache) >= maxSize /\ oldestKey # 0
                THEN RemoveAt(cache, oldestKey) ELSE cache
        i == AstCacheIndex(kept, content)
        entry == [key |-> content, ast |-> ast, lastUsed |-> now]
    IN  IF i = 0 THEN Append(kept, entry) ELSE [kept EXCEPT ![i] = entry]

\* generateNodeSignatures wraps the node with t.expressionStatement, whose
\* builder throws a TypeError for every node that is not an expression (a File
\* never is); for an expression the enter visitor calls generateNodeSignatures
\* on the wrapping Program node, and so on until the stack is exhausted.
AstExpressionTypes == {"Identifier", "StringLiteral", "NumericLiteral", "BooleanLiteral"}

generateNodeSignatures(node) ==
    [threw |-> TRUE,
     error |-> IF node.type \in AstExpressionTypes THEN "RangeError" ELSE "TypeError"]

\* parseChangeLine, the path ["body", hunk[0]] kept as the index hunk[0].
parseChangeLine(line, hunk) ==
    IF StartsWith(line, "+")
        THEN <<[type |-> "insert", index |-> hunk[1], value |-> Tail(line.text)]>>
    ELSE IF StartsWith(line, "-")
        THEN <<[type |-> "delete", index |-> hunk[1], value |-> <<>>]>>
    ELSE <<>>

\* The loop of parseDiffToAstChanges from line i on; hunk is currentHunk
\* (empty for null).
RECURSIVE AstChangesFrom(_, _, _, _)
AstChangesFrom(lines, i, hunk, changes) ==
    IF i > Len(lines) THEN [threw |-> FALSE, changes |-> changes]
    ELSE IF StartsWithAtAt(lines[i])
        THEN LET h == parseHunkHeader(lines[i])
             IN  IF h.threw THEN [threw |-> TRUE, error |-> h.error]
                 ELSE AstChangesFrom(lines, i + 1, h.value, changes)
    ELSE IF hunk # <<>>
        THEN AstChangesFrom(lines, i + 1, hunk, changes \o parseChangeLine(lines[i], hunk))
    ELSE AstChangesFrom(lines, i + 1, hunk, changes)

parseDiffToAstChanges(diffLines) == AstChangesFrom(diffLines, 1, <<>>, <<>>)

\* validateChanges: the error of one change, if any. The path of a delete
\* starts at the File node, which has no "body" property.
AstChangeError(change, ast) ==
    IF change.value # <<>> /\ change.type # "delete" /\ ParseProgram(change.value).threw
        THEN <<[index |-> change.index, message |-> "SyntaxError"]>>
    ELSE IF change.type # "insert" /\ "body" \notin DOMAIN ast
        THEN <<[index |-> change.index, message |-> "Invalid path segment: body"]>>
    ELSE <<>>

RECURSIVE AstErrorsFrom(_, _, _)
AstErrorsFrom(changes, i, ast) ==
    IF i > Len(changes) THEN <<>>
    ELSE AstChangeError(changes[i], ast) \o AstErrorsFrom(changes, i + 1, ast)

validateChanges(changes, ast) ==
    LET errors == AstErrorsFrom(changes, 1, ast)
    IN  [isValid |-> errors = <<>>, errors |-> errors]

\* The body of the Program visitor of applyAstChanges from change i on: the
\* statements of the program and the count of applied changes. The target is
\* looked up in the body as the changes before it left it.
RECURSIVE AstApplyFrom(_, _, _, _)
AstApplyFrom(changes, i, body, appliedChanges) ==
    IF i > Len(changes) THEN [body |-> body, appliedChanges |-> appliedChanges]
    ELSE LET change == changes[i]
             parsed == ParseProgram(change.value)
         IN  IF change.index >= Len(body)
                 THEN AstApplyFrom(changes, i + 1, body, appliedChanges)
             ELSE IF change.type = "insert"
                 THEN IF change.value # <<>> /\ parsed.ast.program.body # <<>>
                      THEN AstApplyFrom(changes, i + 1,
                               JsSplice(body, change.index, 0,
                                        <<parsed.ast.program.body[1]>>),
                               appliedChanges + 1)
                      ELSE AstApplyFrom(changes, i + 1, body, appliedChanges)
             ELSE AstApplyFrom(changes, i + 1, JsSplice(body, change.index, 1, <<>>),
                               appliedChanges + 1)

\* applyAstChanges: the tree handed in is modified in place.
applyAstChanges(ast, changes) ==
    LET done == AstApplyFrom(changes, 1, ast.program.body, 0)
    IN  [ast |-> [ast EXCEPT !.program.body = done.body],
         appliedChanges |-> done.appliedChanges]

AstFailure(message) ==
    [success |-> FALSE, error |-> message]

\* The failure thrown at lines 176-182, which lists the errors found.
AstInvalid(errors) ==
    [success |-> FALSE, error |-> "Invalid AST changes", errors |-> errors]

\* Lines 169-212 of applyDiff, on the tree ast that the cache entry of the
\* content refers to: the result and the cache afterwards.
AstApplyTo(cache, ast, originalContent, diffLines) ==
    LET signatures == generateNodeSignatures(ast)
        changes == parseDiffToAstChanges(diffLines)
        validation == validateChanges(changes.changes, ast)
        applied == applyAstChanges(ast, changes.changes)
        i == AstCacheIndex(cache, originalContent)
    IN  IF signatures.threw THEN [result |-> AstFailure(signatures.error), cache |-> cache]
        ELSE IF changes.threw THEN [result |-> AstFailure(changes.error), cache |-> cache]
        ELSE IF ~validation.isValid
            THEN [result |-> AstInvalid(validation.errors), cache |-> cache]
        ELSE [result |-> [success |-> TRUE, content |-> generate(applied.ast),
                          appliedLines |-> applied.appliedChanges],
              cache |-> IF i = 0 THEN cache ELSE [cache EXCEPT ![i].ast = applied.ast]]

\* AstAwareStrategy.applyDiff of an instance constructed with maxCacheSize,
\* every Date.now() of the call returning now: the DiffResult, the language
\* detected, whether the tree came from the cache, whether astCache.get and
\* parseToAst were called, and the cache afterwards.
AstApplyDiff(cache, maxCacheSize, now, originalContent, diffLines, filePath) ==
    LET language == detectLanguage(filePath)
        got == AstCacheGet(cache, originalContent, now)
        parsed == parseToAst(originalContent, language)
        done == IF got.hit
                THEN AstApplyTo(got.cache, got.ast, originalContent, diffLines)
                ELSE AstApplyTo(AstCacheSet(cache, maxCacheSize, originalContent,
                                            parsed.ast, now),
                                parsed.ast, originalContent, diffLines)
    IN  IF ~isLanguageSupported(language)
            THEN [result |-> AstFailure("Language is not supported"),
                  language |-> language, cacheHit |-> FALSE, cache |-> cache,
                  cacheRead |-> FALSE, parsed |-> FALSE]
        ELSE IF ~got.hit /\ parsed.threw
            THEN [result |-> AstFailure(parsed.error),
                  language |-> language, cacheHit |-> FALSE, cache |-> cache,
                  cacheRead |-> TRUE, parsed |-> TRUE]
        ELSE [result |-> done.result, language |-> language,
              cacheHit |-> got.hit, cache |-> done.cache,
              cacheRead |-> TRUE, parsed |-> ~got.hit]

-----------------------------------------------------------------------------
(* Smart Hybrid strategy *)
(* A digest stands for the text it was computed from.  The original        *)
(* content is plain text, [encoding |-> "plain", text], or the text        *)
(* "base64:" followed by the base64 form of two tag bytes and a text,      *)
(* [encoding |-> "base64", tag, text].                                     *)

CACHE_MAX_SIZE == 10000
CBOR_TAG == 217

Plain(text) == [encoding |-> "plain", text |-> text]
Base64(tag, text) == [encoding |-> "base64", tag |-> tag, text |-> text]

isCborEncoded(content) == content.encoding = "base64" /\ content.tag[1] = CBOR_TAG

\* decodeCbor: the bytes after the two tag bytes, as text.
decodeCbor(content) == content.text

\* The text applyDiff works on. A "base64:" text without the tag is taken as
\* it stands; the model has none.
ShDecoded(content) == IF isCborEncoded(content) THEN decodeCbor(content) ELSE content.text

\* parseDiffContent: each section is found by its own pattern, the search
\* section after the first line ending with the search marker up to the next
\* divider line, the replacement after the first line ending with the divider
\* up to the next line starting with the replace marker.
EndsWithStr(line, suffix) == OccursAt(line, suffix, Len(line) - Len(suffix) + 1)

FirstIndex(set) == CHOOSE a \in set : \A b \in set : a <= b

parseDiffContent(diffContent) ==
    LET lines == Split(diffContent, "\n")
        n == Len(lines)
        ss == {m \in (1..n) \X (1..n) :
                 /\ EndsWithStr(lines[m[1]], searchMarker)
                 /\ m[2] >= m[1] + 2 /\ m[2] < n /\ lines[m[2]] = dividerMarker}
        si == FirstIndex({m[1] : m \in ss})
        sj == FirstIndex({m[2] : m \in {x \in ss : x[1] = si}})
        rs == {m \in (1..n) \X (1..n) :
                 /\ EndsWithStr(lines[m[1]], dividerMarker)
                 /\ m[2] >= m[1] + 2 /\ OccursAt(lines[m[2]], replaceMarker, 1)}
        ri == FirstIndex({m[1] : m \in rs})
        rj == FirstIndex({m[2] : m \in {x \in rs : x[1] = ri}})
    IN  IF ss = {} \/ rs = {} THEN [threw |-> TRUE, error |-> "Invalid diff format"]
        ELSE [threw |-> FALSE,
              searchContent |-> Join(SubSeq(lines, si + 1, sj - 1), <<"\n">>),
              replaceContent |-> Join(SubSeq(lines, ri + 1, rj - 1), <<"\n">>)]

\* The text the structural hasher is fed: the trimmed lines one after the
\* other. Lines of Go files that start with func, type, package or import are
\* rewritten first; the model has no such line.
ShStructuralLine(line, fileExt) ==
    LET trimmedLine == Trim(line)
    IN  CASE fileExt # <<"g", "o">> -> trimmedLine
          [] fileExt = <<"g", "o">>
               /\ ~OccursAt(trimmedLine, <<"f", "u", "n", "c", " ">>, 1)
               /\ ~OccursAt(trimmedLine, <<"t", "y", "p", "e", " ">>, 1)
               /\ ~OccursAt(trimmedLine, <<"p", "a", "c", "k", "a", "g", "e", " ">>, 1)
               /\ ~OccursAt(trimmedLine, <<"i", "m", "p", "o", "r", "t", " ">>, 1)
                  -> trimmedLine

\* content.slice(i, i + CHUNK_SIZE) for i = 0, CHUNK_SIZE, ...
CHUNK_SIZE == 64

RECURSIVE chunkContent(_)
chunkContent(content) ==
    IF content = <<>> THEN <<>>
    ELSE <<JsSlice(content, 0, CHUNK_SIZE)>>
         \o chunkContent(JsSlice(content, CHUNK_SIZE, Len(content)))

generateHybridHash(content, fileExt) ==
    LET lines == Split(content, "\n")
    IN  [structural |-> Concat([i \in 1..Len(lines) |-> ShStructuralLine(lines[i], fileExt)]),
         semantic |-> content,
         chunks |-> chunkContent(content)]

\* A key that leaves the semantic digest out.
getCacheKey_StructuralOnly(hash, diffContent) == <<hash.structural, diffContent>>

\* The digests of the structure, of the content and of the diff text.
getCacheKey(hash, diffContent) == <<hash.structural, hash.semantic, diffContent>>

\* str.replace(/\r\n/g, "\n").
RECURSIVE NormalizeLineEndings(_)
NormalizeLineEndings(str) ==
    IF str = <<>> THEN <<>>
    ELSE IF OccursAt(str, <<"\r", "\n">>, 1)
        THEN <<"\n">> \o NormalizeLineEndings(SubSeq(str, 3, Len(str)))
    ELSE <<str[1]>> \o NormalizeLineEndings(Tail(str))

\* String.prototype.indexOf: 1-based, 0 when absent.
IndexOfStr(str, needle) ==
    LET hits == {i \in 1..(Len(str) + 1) : OccursAt(str, needle, i)}
    IN  IF hits = {} THEN 0 ELSE FirstIndex(hits)

\* The replacement text of String.prototype.replace with a string pattern:
\* $$, $&, $` and $' are special.
RECURSIVE ExpandReplacement(_, _, _, _)
ExpandReplacement(repl, matched, before, after) ==
    IF repl = <<>> THEN <<>>
    ELSE IF repl[1] = "$" /\ Len(repl) >= 2 /\ repl[2] \in {"$", "&", "`", "'"}
        THEN (CASE repl[2] = "$" -> <<"$">>
                [] repl[2] = "&" -> matched
                [] repl[2] = "`" -> before
                [] repl[2] = "'" -> after)
             \o ExpandReplacement(SubSeq(repl, 3, Len(repl)), matched, before, after)
    ELSE <<repl[1]>> \o ExpandReplacement(Tail(repl), matched, before, after)

\* str.replace(pattern, repl) for a string pattern that occurs in str.
ReplaceFirst(str, pattern, repl) ==
    LET k == IndexOfStr(str, pattern)
        before == SubSeq(str, 1, k - 1)
        after == SubSeq(str, k + Len(pattern), Len(str))
    IN  before \o ExpandReplacement(repl, pattern, before, after) \o after

\* createSuccessResult.
createSuccessResult(content) ==
    [success |-> TRUE, content |-> content, appliedLines |-> Len(Split(content, "\n"))]

\* hotCache.get: a hit becomes the most recently used entry.
HotGet(cache, key) ==
    LET i == CacheIndex(cache, key)
    IN  IF i = 0 THEN [hit |-> FALSE, cache |-> cache]
        ELSE [hit |-> TRUE, value |-> cache[i].value,
              cache |-> Append(RemoveAt(cache, i), cache[i])]

\* hotCache.set: the entry becomes the most recently used one; beyond max the
\* least recently used entry goes.
HotSet(cache, max, key, value) ==
    LET i == CacheIndex(cache, key)
        rest == IF i = 0 THEN cache ELSE RemoveAt(cache, i)
        kept == IF Len(rest) >= max /\ rest # <<>> THEN Tail(rest) ELSE rest
    IN  Append(kept, [key |-> key, value |-> value])

\* The extension generateHybridHash reads off fileStats.path.
ShFileExt(filePath) ==
    IF filePath.kind = "undefined" THEN <<>> ELSE toLowerCase(SplitDotPop(filePath.value))

\* SmartHybridStrategy.applyDiff on the hot cache given: the DiffResult,
\* whether the hot cache answered, the hot cache afterwards, and whether
\* warmCache.set was called. The warm cache is a WeakMap looked up with an
\* object created for the call, which is never one of its keys.
ShApplyDiff(cache, originalContent, diffContent, filePath) ==
    LET content == ShDecoded(originalContent)
        parsed == parseDiffContent(diffContent)
        hash == generateHybridHash(content, ShFileExt(filePath))
        cacheKey == getCacheKey(hash, diffContent)
        hotCacheHit == HotGet(cache, cacheKey)
        normalizedSearchContent == NormalizeLineEndings(parsed.searchContent)
        normalizedOriginalContent == NormalizeLineEndings(content)
        processedContent ==
            ReplaceFirst(normalizedOriginalContent, normalizedSearchContent,
                         NormalizeLineEndings(parsed.replaceContent))
    IN  IF parsed.threw
            THEN [result |-> [success |-> FALSE, error |-> parsed.error],
                  cacheHit |-> FALSE, cache |-> cache, warmSet |-> FALSE]
        ELSE IF hotCacheHit.hit
            THEN [result |-> createSuccessResult(hotCacheHit.value),
                  cacheHit |-> TRUE, cache |-> hotCacheHit.cache, warmSet |-> FALSE]
        ELSE IF ~Includes(normalizedOriginalContent, normalizedSearchContent)
            THEN [result |-> [success |-> FALSE,
                              error |-> "Search content not found in original content"],
                  cacheHit |-> FALSE, cache |-> cache, warmSet |-> FALSE]
        ELSE [result |-> createSuccessResult(processedContent),
              cacheHit |-> FALSE,
              cache |-> HotSet(cache, CACHE_MAX_SIZE, cacheKey, processedContent),
              warmSet |-> TRUE]

\* The applyDiff calls that may be in flight on one instance at a time.
MaxInFlight == 2

ShCallIds == 1..MaxInFlight

\* A hasher of crypto.createHash: the text it was fed, and whether digest()
\* was called on it.
NewHasher == [data |-> <<>>, digested |-> FALSE]

\* The constructor's hashers and the empty chunkHashes.
NewHashers ==
    [structural |-> NewHasher, semantic |-> NewHasher, chunkHashes |-> <<>>]

-----------------------------------------------------------------------------
(* Initial state: no call made, every cache empty *)

\* The keys an LRUCache instance is used with.
LruKeys == {"k1", "k2", "k3"}

\* new LRUCache(maxSize), with the book-keeping of the run: for every key the
\* number of the operation that inserted the entry now held (born) and of
\* the last operation that inserted or read it (used), 0 when absent.
NewLru ==
    [cache |-> <<>>, born |-> [k \in LruKeys |-> 0], used |-> [k \in LruKeys |-> 0],
     ops |-> 0, last |-> [op |-> "new"]]

Init ==
    /\ selCall = NoCall
    /\ similarityCache = <<>>
    /\ srCall = NoCall
    /\ srCalls = 0
    /\ ouCall = NoCall
    /\ astCache = <<>>
    /\ astClock = 0
    /\ astCall = NoCall
    /\ astCalls = 0
    /\ hotCache = <<>>
    /\ shCall = NoCall
    /\ shCalls = 0
    /\ shTasks = [p \in ShCallIds |-> [pc |-> "idle"]]
    /\ shHashers = NewHashers
    /\ parCall = NoCall
    /\ lru = NewLru

-----------------------------------------------------------------------------
(* The selector as a state machine: getDiffStrategy is a pure function, so a *)
(* behaviour is one call                                                     *)

SelModels == {"gpt-4", "claude-3-opus"}

SelThresholds == {Undefined, Num(<<1, 1>>), Num(<<9, 10>>)}

SelSizes ==
    {0, 1, 100, LARGE_FILE_THRESHOLD - 1, LARGE_FILE_THRESHOLD,
     LARGE_FILE_THRESHOLD + 1, 2 * LARGE_FILE_THRESHOLD}

SelPaths ==
    { <<"m",".","j","s">>, <<"m",".","j","s","x">>, <<"m",".","t","s">>,
      <<"m",".","t","s","x">>, <<"m",".","g","o">>, <<"m",".","G","O">>,
      <<"c",".","j","s","o","n">>, <<"r",".","t","x","t">>, <<"r",".","m","d">>,
      <<"c",".","y","m","l">>, <<"c",".","y","a","m","l">>, <<"x",".","p","y">>,
      <<"a",".","t","s",".","m","d">>, <<"m","k">>, <<>> }

SelArgs ==
    {Undefined} \cup {Num(<<1, 2>>)}
        \cup {FileStats(size, path) : size \in SelSizes, path \in SelPaths}

GetDiffStrategy ==
    \E model \in SelModels, arg \in SelArgs, fuzzy \in SelThresholds :
        /\ ~selCall.made
        /\ selCall' = [made |-> TRUE, model |-> model, arg |-> arg, fuzzy |-> fuzzy,
                       result |-> getDiffStrategy(model, arg, fuzzy)]
        /\ UNCHANGED <<srVars, ouVars, astVars, shVars, parVars, lruVars>>

NextSel == GetDiffStrategy

SpecSel == Init /\ [][NextSel]_vars

\* The extension the selector reads off the path of the last call.
SelExt == toLowerCase(SplitDotPop(selCall.arg.path))

\* C8: the selector returns AST-Aware only for a file whose language AST-Aware
\* supports; a '.go' file is passed on to the next rule.
C8_AstOnlyWhenSupported ==
    (selCall.made /\ selCall.result.strategy = "AstAware")
        => /\ selCall.arg.kind = "object"
           /\ isLanguageSupported(detectLanguage(Str(selCall.arg.path)))

\* C9: with a size known and in 0..1 MiB and an extension outside
\* js/jsx/ts/tsx/go, the selector returns Smart Hybrid for json/txt/md/yml/yaml
\* and Optimized Unified otherwise, never Search-Replace.
C9_KnownSizeNeverSearchReplace ==
    (selCall.made /\ selCall.arg.kind = "object"
        /\ selCall.arg.size >= 0 /\ selCall.arg.size <= 1048576
        /\ SelExt \notin { <<"j","s">>, <<"j","s","x">>, <<"t","s">>,
                           <<"t","s","x">>, <<"g","o">> })
        => selCall.result.strategy =
              IF SelExt \in { <<"j","s","o","n">>, <<"t","x","t">>, <<"m","d">>,
                              <<"y","m","l">>, <<"y","a","m","l">> }
              THEN "SmartHybrid" ELSE "OptimizedUnified"

-----------------------------------------------------------------------------
(* Optimized Unified as a state machine: applyDiff builds a buffer of its own *)
(* and keeps nothing between calls, so a behaviour is one call               *)

MaxDiffLines == 3

OuContents == { <<"a", "\n", "b">>, <<"a", "b">>, <<"a">> }

OuDiffLines ==
    { Header(1, 1), Header(1025, 1), BadHeader,
      Line(<<"+", "x">>), Line(<<"-", "a">>), Line(<<" ", "b">>), Line(<<" ">>),
      Line(<<>>) }

OuDiffs == UNION { [1..n -> OuDiffLines] : n \in 1..MaxDiffLines }

\* options.fileStats.size (0: no fileStats) and navigator.hardwareConcurrency.
OuOptions ==
    { [size |-> 0, hardwareConcurrency |-> 1],
      [size |-> 2 * OU_CHUNK_SIZE, hardwareConcurrency |-> 1],
      [size |-> 2 * OU_CHUNK_SIZE, hardwareConcurrency |-> 2] }

OuApply ==
    \E content \in OuContents, diff \in OuDiffs, opt \in OuOptions :
        /\ ~ouCall.made
        /\ ouCall' = [made |-> TRUE, content |-> content, diff |-> diff, options |-> opt,
                      result |-> OuApplyDiff(content, diff, opt.size,
                                             opt.hardwareConcurrency)]
        /\ UNCHANGED <<selVars, srVars, astVars, shVars, parVars, lruVars>>

NextOu == OuApply

SpecOu == Init /\ [][NextOu]_vars

\* Whether, from diff line i on, some context line differs (trimmed) from the
\* original line it stands for: n is the original line number the next
\* old-side line of the current hunk stands for, 0 before the first header.
RECURSIVE ContextMismatchFrom(_, _, _, _)
ContextMismatchFrom(diff, i, origLines, n) ==
    IF i > Len(diff) THEN FALSE
    ELSE LET line == diff[i]
         IN  IF line.kind = "header"
                 THEN ContextMismatchFrom(diff, i + 1, origLines, line.oldStart)
             ELSE IF line.kind = "badheader" \/ n = 0
                 THEN ContextMismatchFrom(diff, i + 1, origLines, n)
             ELSE IF StartsWith(line, " ")
                 THEN \/ n > Len(origLines)
                      \/ Trim(origLines[n]) # Trim(Tail(line.text))
                      \/ ContextMismatchFrom(diff, i + 1, origLines, n + 1)
             ELSE IF StartsWith(line, "-")
                 THEN ContextMismatchFrom(diff, i + 1, origLines, n + 1)
             ELSE ContextMismatchFrom(diff, i + 1, origLines, n)

HasContextMismatch(content, diff) ==
    ContextMismatchFrom(diff, 1, Split(content, "\n"), 0)

\* C6: a diff with a hunk one of whose context lines does not equal (trimmed)
\* the corresponding line of the original is never answered with success.
C6_ContextMismatchFails ==
    (ouCall.made /\ HasContextMismatch(ouCall.content, ouCall.diff))
        => ~ouCall.result.success

\* C7: a diff text without any valid hunk header is answered with the
\* invalid-format failure, never with success.
C7_NoHeaderIsInvalidFormat ==
    (ouCall.made /\ \A i \in 1..Len(ouCall.diff) : ouCall.diff[i].kind # "header")
        => /\ ~ouCall.result.success
           /\ ouCall.result.error = "Invalid hunk header format"

-----------------------------------------------------------------------------
(* Search-Replace: state machine                                           *)
(* Every instance shares the module-level similarity cache, so each call   *)
(* may come from an instance with its own threshold and buffer.            *)

MaxCalls == 2
MaxDocLines == 2

SrDocLines == { <<"b">>, <<" ", "b">>, <<"a", "b">>, <<"a", "b", "|">> }

SrSearchLines == { <<"b">>, <<"|", "b">>, <<"a">>, <<>> }

SrReplaceLines == { <<"x">>, <<" ", "x">>, <<>> }

\* The sequences of 1..n lines of a set.
RECURSIVE SeqsUpTo(_, _)
SeqsUpTo(set, n) ==
    IF n = 0 THEN {}
    ELSE {<<l>> : l \in set}
         \cup {Append(ls, l) : ls \in SeqsUpTo(set, n - 1), l \in set}

SrContents == {Join(ls, <<"\n">>) : ls \in SeqsUpTo(SrDocLines, MaxDocLines)}

\* A well-formed block with one search line and one replacement line (an
\* empty line is an empty section).
SrBlock(search, replace) ==
    Join(<<searchMarker, search, dividerMarker, replace, replaceMarker>>, <<"\n">>)

SrDiffs ==
    {SrBlock(se, re) : se \in SrSearchLines, re \in SrReplaceLines}
        \cup { Join(<<searchMarker, dividerMarker, <<"x">>, replaceMarker>>, <<"\n">>),
               Join(<<searchMarker, <<"b">>, dividerMarker, <<"x">>>>, <<"\n">>) }

SrRanges ==
    { [startLine |-> Undefined, endLine |-> Undefined],
      [startLine |-> Num(1), endLine |-> Num(1)],
      [startLine |-> Num(2), endLine |-> Num(2)],
      [startLine |-> Num(1), endLine |-> Num(2)],
      [startLine |-> Num(2), endLine |-> Num(1)],
      [startLine |-> Num(1), endLine |-> Undefined] }

SrThresholds == { <<1, 1>>, <<1, 2>>, <<0, 1>> }

SrBufferLines == { 0, BUFFER_LINES }

\* The calls of the runs in which several calls share the cache: one
\* replacement text, no range or the first line, thresholds 1 and 1/2.
SrSharedDiffs == {SrBlock(se, <<"x">>) : se \in SrSearchLines \ {<<>>}}

SrSharedRanges ==
    { [startLine |-> Undefined, endLine |-> Undefined],
      [startLine |-> Num(1), endLine |-> Num(1)] }

SrSharedThresholds == { <<1, 1>>, <<1, 2>> }

\* applyDiff of the call recorded in c, run on the cache given.
SrRun(cache, c) ==
    SrApplyDiff(cache, c.originalContent, c.diffContent, c.startLine, c.endLine,
                c.fuzzyThreshold, c.bufferLines)

\* One applyDiff call with arguments and instance drawn from the sets given.
\* The call returns: the cache it left and its result are recorded.
SrRecord(c, done) ==
    /\ similarityCache' = done.cache
    /\ srCall' = [made |-> TRUE, arg |-> c, result |-> done.result]
    /\ srCalls' = srCalls + 1
    /\ UNCHANGED <<selVars, ouVars, astVars, shVars, parVars, lruVars>>

SrInvoke(c) == SrRecord(c, SrRun(similarityCache, c))

SrCall(contents, diffs, ranges, thresholds, buffers) ==
    \E content \in contents, diff \in diffs, range \in ranges,
       threshold \in thresholds, buffer \in buffers :
        /\ ~srCall.made
        /\ SrInvoke([originalContent |-> content, diffContent |-> diff,
                     startLine |-> range.startLine, endLine |-> range.endLine,
                     fuzzyThreshold |-> threshold, bufferLines |-> buffer])

\* The first call after the module is loaded.
SrApply == SrCall(SrContents, SrDiffs, SrRanges, SrThresholds, SrBufferLines)

NextSr == SrApply

SpecSr == Init /\ [][NextSr]_vars

\* One of up to MaxCalls calls that share the cache.
SrApplyShared ==
    /\ srCalls < MaxCalls
    /\ SrCall(SrContents, SrSharedDiffs, SrSharedRanges, SrSharedThresholds,
              {BUFFER_LINES})

\* The caller takes the result; the cache stays.
SrReturn ==
    /\ srCall.made
    /\ srCall' = NoCall
    /\ UNCHANGED <<similarityCache, srCalls, selVars, ouVars, astVars, shVars, parVars, lruVars>>

NextSrCache == SrApplyShared \/ SrReturn

SpecSrCache == Init /\ [][NextSrCache]_vars

\* What the last call was given, as applyDiff reads it.
SrWellFormed == MatchDiff(srCall.arg.diffContent).matched

SrSearchOf(c) ==
    LET content == MatchDiff(c.diffContent).searchContent
    IN  IF content = <<>> THEN <<>> ELSE SplitLines(content)

SrOriginalOf(c) == SplitLines(c.originalContent)

SrNoRange(c) == c.startLine.kind = "undefined" /\ c.endLine.kind = "undefined"

\* The k original lines from 0-based index i on.
SrWindow(originalLines, i, k) == JsSlice(originalLines, i, i + k)

\* The similarity of every window of the document to the search block, computed
\* without any cache.
SrWindowScores(originalLines, searchLines) ==
    { getSimilarity(<<>>, Join(SrWindow(originalLines, i, Len(searchLines)), <<"\n">>),
                    Join(searchLines, <<"\n">>)).value :
        i \in 0..(Len(originalLines) - Len(searchLines)) }

\* C2: a call returns the same success or failure and the same content as the
\* same call run on an empty similarity cache.
C2_CacheIndependent ==
    srCall.made =>
        LET fresh == SrRun(<<>>, srCall.arg).result
        IN  /\ fresh.success = srCall.result.success
            /\ fresh.success => fresh.content = srCall.result.content

\* C3: without a line range and with a threshold in (0, 1], a search block
\* whose lines are a contiguous run of the original lines is answered with
\* success, score 1 and the replacement of a run identical to the search block.
C3_ExactRunReplaced ==
    LET c == srCall.arg
        originalLines == SrOriginalOf(c)
        searchLines == SrSearchOf(c)
        k == Len(searchLines)
    IN  ( /\ srCall.made /\ SrWellFormed /\ SrNoRange(c)
          /\ RatGt(c.fuzzyThreshold, <<0, 1>>) /\ RatGe(<<1, 1>>, c.fuzzyThreshold)
          /\ k > 0
          /\ \E i \in 0..(Len(originalLines) - k) :
                SrWindow(originalLines, i, k) = searchLines )
        => /\ srCall.result.success
           /\ RatEq(srCall.result.accuracyScore, <<1, 1>>)
           /\ SrWindow(originalLines, srCall.result.matchIndex, k) = searchLines

\* C4: the call succeeds when the best window (the addressed region, or the
\* best of the scan) scores exactly the threshold, and fails with the no-match
\* diagnostic when every window of the scan scores below it.
C4_ThresholdBoundary ==
    LET c == srCall.arg
        originalLines == SrOriginalOf(c)
        searchLines == SrSearchOf(c)
        scores == SrWindowScores(originalLines, searchLines)
        region == SrWindow(originalLines, c.startLine.value - 1,
                           c.endLine.value - c.startLine.value + 1)
        regionScore == getSimilarity(<<>>, Join(region, <<"\n">>),
                                     Join(searchLines, <<"\n">>)).value
    IN  (srCall.made /\ SrWellFormed /\ searchLines # <<>>) =>
            /\ ( /\ SrNoRange(c)
                 /\ \E sc \in scores : RatEq(sc, c.fuzzyThreshold)
                 /\ \A sc \in scores : RatGe(c.fuzzyThreshold, sc) )
                    => srCall.result.success
            /\ ( /\ SrNoRange(c)
                 /\ \A sc \in scores : RatLt(sc, c.fuzzyThreshold) )
                    => (~srCall.result.success /\ srCall.result.error = "NoMatch")
            /\ ( /\ Truthy(c.startLine) /\ Truthy(c.endLine)
                 /\ c.startLine.value <= c.endLine.value
                 /\ c.endLine.value <= Len(originalLines)
                 /\ RatEq(regionScore, c.fuzzyThreshold) )
                    => srCall.result.success

\* C5: at threshold 1 a call succeeds only on a window whose lines equal the
\* search lines character for character, whitespace included.
C5_ThresholdOneIsExact ==
    LET c == srCall.arg
        searchLines == SrSearchOf(c)
    IN  ( /\ srCall.made /\ SrWellFormed
          /\ RatEq(c.fuzzyThreshold, <<1, 1>>)
          /\ srCall.result.success )
        => SrWindow(SrOriginalOf(c), srCall.result.matchIndex, Len(searchLines))
               = searchLines

-----------------------------------------------------------------------------
(* AST-Aware and Smart Hybrid: state machine of one instance of each       *)

MaxCacheSize == 1

Path(chars) == [kind |-> "string", value |-> chars]

AstContents == { <<"a", ";">>, <<"b", ";">> }

AstDiffs == { <<Header(0, 0), Line(<<"+", "b", ";">>)>>, <<BadHeader>> }

AstPaths == { Path(<<"m", ".", "t", "s">>), Path(<<"m", ".", "g", "o">>) }

\* applyDiff of the call recorded in c, run on the cache given at clock now.
AstRun(cache, now, c) ==
    AstApplyDiff(cache, MaxCacheSize, now, c.originalContent, c.diffLines, c.filePath)

\* One applyDiff call on the AST-Aware instance; the clock may have advanced.
AstCall(contents, diffs, paths) ==
    \E content \in contents, diff \in diffs, path \in paths, tick \in {0, 1} :
        LET c == [originalContent |-> content, diffLines |-> diff, filePath |-> path]
            now == astClock + tick
            done == AstRun(astCache, now, c)
        IN  /\ ~astCall.made
            /\ astCalls < MaxCalls
            /\ astCache' = done.cache
            /\ astClock' = now
            /\ astCall' = [made |-> TRUE, arg |-> c, now |-> now,
                           cacheHit |-> done.cacheHit, result |-> done.result,
                           language |-> done.language, cacheRead |-> done.cacheRead,
                           parsed |-> done.parsed, before |-> astCache]
            /\ astCalls' = astCalls + 1
            /\ UNCHANGED <<selVars, srVars, ouVars, shVars, parVars, lruVars>>

AstApply == AstCall(AstContents, AstDiffs, AstPaths)

AstReturn ==
    /\ astCall.made
    /\ astCall' = NoCall
    /\ UNCHANGED <<astCache, astClock, astCalls, selVars, srVars, ouVars, shVars, parVars, lruVars>>

ShContents ==
    { Plain(<<"a">>), Plain(<<" ", "a">>), Base64(<<CBOR_TAG, 0>>, <<"a">>) }

ShDiffs ==
    { SrBlock(<<"a">>, <<"x">>), SrBlock(<<"b">>, <<"x">>),
      Join(<<searchMarker, <<"a">>, dividerMarker, <<"x">>>>, <<"\n">>) }

ShPaths == { Undefined, Path(<<"m", ".", "g", "o">>) }

ShRun(cache, c) == ShApplyDiff(cache, c.originalContent, c.diffContent, c.filePath)

\* One applyDiff call on the Smart Hybrid instance.
ShCall(contents, diffs, paths) ==
    \E content \in contents, diff \in diffs, path \in paths :
        LET c == [originalContent |-> content, diffContent |-> diff, filePath |-> path]
            done == ShRun(hotCache, c)
        IN  /\ ~shCall.made
            /\ shCalls < MaxCalls
            /\ hotCache' = done.cache
            /\ shCall' = [made |-> TRUE, arg |-> c, cacheHit |-> done.cacheHit,
                          result |-> done.result, warmSet |-> done.warmSet,
                          before |-> hotCache]
            /\ shCalls' = shCalls + 1
            /\ UNCHANGED <<selVars, srVars, ouVars, astVars, shTasks, shHashers, parVars, lruVars>>

ShApply == ShCall(ShContents, ShDiffs, ShPaths)

ShReturn ==
    /\ shCall.made
    /\ shCall' = NoCall
    /\ UNCHANGED <<hotCache, shCalls, selVars, srVars, ouVars, astVars, shTasks, shHashers, parVars, lruVars>>

\* The entry that was used longest ago outlives its time to live.
ShExpire ==
    /\ ~shCall.made
    /\ hotCache # <<>>
    /\ hotCache' = Tail(hotCache)
    /\ UNCHANGED <<shCall, shCalls, selVars, srVars, ouVars, astVars, shTasks, shHashers, parVars, lruVars>>

NextCache == AstApply \/ AstReturn \/ ShApply \/ ShReturn \/ ShExpire

SpecCache == Init /\ [][NextCache]_vars

\* Two results show the same outcome and, on success, the same content.
SameOutput(r1, r2) ==
    /\ r1.success = r2.success
    /\ r1.success => r1.content = r2.content

\* C1: a Smart Hybrid or AST-Aware call that hits the cache returns the output
\* the same call returns on a fresh instance, whose caches are empty.
C1_CacheHitEqualsFresh ==
    /\ (astCall.made /\ astCall.cacheHit)
          => SameOutput(astCall.result, AstRun(<<>>, astCall.now, astCall.arg).result)
    /\ (shCall.made /\ shCall.cacheHit)
          => SameOutput(shCall.result, ShRun(<<>>, shCall.arg).result)

C1_Witness ==
    /\ shCall.made /\ shCall.cacheHit /\ shCall.result.success
    /\ astCall.made /\ astCall.cacheHit

-----------------------------------------------------------------------------
(* Search-Replace: the empty search block and the line range *)

\* Both line numbers were given (any number, zero included).
SrRangeGiven(c) == c.startLine.kind = "number" /\ c.endLine.kind = "number"

\* C11: with an empty SEARCH section the call succeeds only if startLine and
\* endLine are both given and equal; otherwise it fails and inserts nothing.
C11_EmptySearchNeedsOneLine ==
    (srCall.made /\ SrWellFormed /\ SrSearchOf(srCall.arg) = <<>>
        /\ srCall.result.success)
        => /\ SrRangeGiven(srCall.arg)
           /\ srCall.arg.startLine.value = srCall.arg.endLine.value

\* C12: a supplied range that is inverted or not within the lines 1..N of the
\* document makes the call fail with the invalid-range failure.
C12_BadRangeIsInvalidRange ==
    (srCall.made /\ SrWellFormed /\ SrSearchOf(srCall.arg) # <<>>
        /\ SrRangeGiven(srCall.arg)
        /\ \/ srCall.arg.startLine.value > srCall.arg.endLine.value
           \/ srCall.arg.startLine.value < 1
           \/ srCall.arg.endLine.value > Len(SrOriginalOf(srCall.arg)))
        => (~srCall.result.success /\ srCall.result.error = "InvalidRange")

-----------------------------------------------------------------------------
(* The same block applied twice: the second call is given the content the   *)
(* first call returned, with the same block and options, on the same        *)
(* instance.                                                                 *)

SrTwiceDiffs == {SrBlock(se, <<"x">>) : se \in {<<"b">>, <<" ", "b">>}}

SrTwiceRanges ==
    { [startLine |-> Undefined, endLine |-> Undefined],
      [startLine |-> Num(1), endLine |-> Num(1)],
      [startLine |-> Num(2), endLine |-> Num(2)] }

\* The first call, at threshold 1.0.
SrFirst == SrCall(SrContents, SrTwiceDiffs, SrTwiceRanges, {<<1, 1>>}, {BUFFER_LINES})

SrRecordAgain(first, c, done) ==
    /\ similarityCache' = done.cache
    /\ srCall' = [made |-> TRUE, arg |-> c, result |-> done.result, first |-> first]
    /\ srCalls' = srCalls + 1
    /\ UNCHANGED <<selVars, ouVars, astVars, shVars, parVars, lruVars>>

SrInvokeAgain(first, c) == SrRecordAgain(first, c, SrRun(similarityCache, c))

\* The second call, on the content the first call returned.
SrAgain ==
    /\ srCall.made
    /\ "first" \notin DOMAIN srCall
    /\ srCall.result.success
    /\ SrInvokeAgain(srCall,
                     [srCall.arg EXCEPT !.originalContent = srCall.result.content])

ShTwiceContents ==
    { Plain(<<"a">>), Plain(<<"a", "a">>), Plain(<<"a", "\r", "\n", "a">>),
      Plain(<<"x">>), Base64(<<CBOR_TAG, 0>>, <<"a">>) }

ShTwiceDiffs ==
    { SrBlock(<<"a">>, <<"x">>), SrBlock(<<"a">>, <<"a">>), SrBlock(<<"a">>, <<>>),
      SrBlock(<<"a", "\r">>, <<"x">>) }

ShFirst == ShCall(ShTwiceContents, ShTwiceDiffs, ShPaths)

ShRecordAgain(first, c, done) ==
    /\ hotCache' = done.cache
    /\ shCall' = [made |-> TRUE, arg |-> c, cacheHit |-> done.cacheHit,
                  result |-> done.result, first |-> first]
    /\ shCalls' = shCalls + 1
    /\ UNCHANGED <<selVars, srVars, ouVars, astVars, shTasks, shHashers, parVars, lruVars>>

ShInvokeAgain(first, c) == ShRecordAgain(first, c, ShRun(hotCache, c))

ShAgain ==
    /\ shCall.made
    /\ "first" \notin DOMAIN shCall
    /\ shCall.result.success
    /\ ShInvokeAgain(shCall,
                     [shCall.arg EXCEPT !.originalContent = Plain(shCall.result.content)])

NextTwice == SrFirst \/ SrAgain \/ ShFirst \/ ShAgain

SpecTwice == Init /\ [][NextTwice]_vars

\* The last call was the second of the two, and the content it was given no
\* longer contains the search text.
SrSecondWithoutSearch ==
    /\ srCall.made
    /\ "first" \in DOMAIN srCall
    /\ ~Includes(srCall.arg.originalContent, MatchDiff(srCall.arg.diffContent).searchContent)

ShSecondWithoutSearch ==
    /\ shCall.made
    /\ "first" \in DOMAIN shCall
    /\ ~Includes(shCall.arg.originalContent.text,
                 parseDiffContent(shCall.arg.diffContent).searchContent)

\* C13: the second application of a block to the content the first one
\* returned fails with the no-match failure (Search-Replace at threshold 1.0)
\* or with "Search content not found" (Smart Hybrid) whenever that content no
\* longer contains the search text, and is not a success served from a cache.
C13_SecondApplicationFails ==
    /\ SrSecondWithoutSearch
          => (~srCall.result.success /\ srCall.result.error = "NoMatch")
    /\ ShSecondWithoutSearch
          => /\ ~shCall.result.success
             /\ shCall.result.error = "Search content not found in original content"
             /\ ~shCall.cacheHit

\* The Smart Hybrid half of C13 on its own.
C13_SmartHybridHalf ==
    ShSecondWithoutSearch
        => /\ ~shCall.result.success
           /\ shCall.result.error = "Search content not found in original content"
           /\ ~shCall.cacheHit

-----------------------------------------------------------------------------
(* Smart Hybrid: applyDiff calls in flight together on one instance.  A call *)
(* runs from one await to the next without interruption: up to the await in *)
(* generateHybridHash, from there to the digests, then the cache lookup up   *)
(* to the await of chunkContent, then the replacement.                       *)

AsyncContents == { Plain(<<"a">>), Plain(<<"b">>) }

AsyncDiffs ==
    { SrBlock(<<"a">>, <<"x">>), SrBlock(<<"b">>, <<"x">>),
      Join(<<searchMarker, <<"a">>, dividerMarker, <<"x">>>>, <<"\n">>) }

ShTaskVarsUnchanged == UNCHANGED <<shCall, shCalls, selVars, srVars, ouVars, astVars, parVars, lruVars>>

\* this.structuralHasher = createHash(...); this.semanticHasher = ...;
\* this.chunkHashes = []; then the updates with the content.
FedHashers(hash) ==
    [structural |-> [data |-> hash.structural, digested |-> FALSE],
     semantic |-> [data |-> hash.semantic, digested |-> FALSE],
     chunkHashes |-> <<>>]

\* The call starts: decoding, parseDiffContent, and generateHybridHash up to
\* its await of chunkContent.
AsyncBegin(p, c, parsed, hash) ==
    IF parsed.threw
    THEN /\ shTasks' = [shTasks EXCEPT ![p] =
                          [pc |-> "returned", arg |-> c,
                           result |-> [success |-> FALSE, error |-> parsed.error]]]
         /\ UNCHANGED <<shHashers, hotCache>>
    ELSE /\ shTasks' = [shTasks EXCEPT ![p] =
                          [pc |-> "hashing", arg |-> c, chunks |-> hash.chunks]]
         /\ shHashers' = FedHashers(hash)
         /\ UNCHANGED hotCache

AsyncStart(p) ==
    \E content \in AsyncContents, diff \in AsyncDiffs :
        /\ shTasks[p].pc = "idle"
        /\ AsyncBegin(p, [originalContent |-> content, diffContent |-> diff,
                          filePath |-> Undefined],
                      parseDiffContent(diff),
                      generateHybridHash(ShDecoded(content), <<>>))
        /\ ShTaskVarsUnchanged

\* generateHybridHash after its await: the chunk hashes are pushed to
\* this.chunkHashes and the instance's hashers are digested. digest() on a
\* hasher that was digested before throws, and applyDiff's catch returns the
\* failure with the error's message.
AsyncDigest(p) ==
    /\ shTasks[p].pc = "hashing"
    /\ IF shHashers.structural.digested \/ shHashers.semantic.digested
       THEN /\ shTasks' = [shTasks EXCEPT ![p] =
                             [pc |-> "returned", arg |-> shTasks[p].arg,
                              result |-> [success |-> FALSE,
                                          error |-> "Digest already called"]]]
            /\ shHashers' = [shHashers EXCEPT
                                !.chunkHashes = @ \o shTasks[p].chunks]
       ELSE /\ shTasks' = [shTasks EXCEPT ![p] =
                             [pc |-> "hashed", arg |-> shTasks[p].arg,
                              hash |-> [structural |-> shHashers.structural.data,
                                        semantic |-> shHashers.semantic.data,
                                        chunks |-> shHashers.chunkHashes
                                                      \o shTasks[p].chunks]]]
            /\ shHashers' = [structural |-> [shHashers.structural EXCEPT !.digested = TRUE],
                             semantic |-> [shHashers.semantic EXCEPT !.digested = TRUE],
                             chunkHashes |-> shHashers.chunkHashes \o shTasks[p].chunks]
    /\ UNCHANGED hotCache
    /\ ShTaskVarsUnchanged

\* getCacheKey and the hot cache: a hit returns, a miss goes on to the await
\* of chunkContent.
AsyncLooked(p, cacheKey, hotCacheHit) ==
    IF hotCacheHit.hit
    THEN /\ shTasks' = [shTasks EXCEPT ![p] =
                          [pc |-> "returned", arg |-> shTasks[p].arg,
                           result |-> createSuccessResult(hotCacheHit.value)]]
         /\ hotCache' = hotCacheHit.cache
    ELSE /\ shTasks' = [shTasks EXCEPT ![p] =
                          [pc |-> "chunking", arg |-> shTasks[p].arg,
                           hash |-> shTasks[p].hash, cacheKey |-> cacheKey]]
         /\ UNCHANGED hotCache

AsyncKeyed(p, cacheKey) == AsyncLooked(p, cacheKey, HotGet(hotCache, cacheKey))

AsyncLookup(p) ==
    /\ shTasks[p].pc = "hashed"
    /\ AsyncKeyed(p, getCacheKey(shTasks[p].hash, shTasks[p].arg.diffContent))
    /\ UNCHANGED shHashers
    /\ ShTaskVarsUnchanged

\* The replacement and the cache update, or the failure.
AsyncReplaced(p, cacheKey, original, search, replace) ==
    IF ~Includes(original, search)
    THEN /\ shTasks' = [shTasks EXCEPT ![p] =
                          [pc |-> "returned", arg |-> shTasks[p].arg,
                           result |-> [success |-> FALSE,
                                       error |-> "Search content not found in original content"]]]
         /\ UNCHANGED hotCache
    ELSE /\ shTasks' = [shTasks EXCEPT ![p] =
                          [pc |-> "returned", arg |-> shTasks[p].arg,
                           result |-> createSuccessResult(
                                          ReplaceFirst(original, search, replace))]]
         /\ hotCache' = HotSet(hotCache, CACHE_MAX_SIZE, cacheKey,
                               ReplaceFirst(original, search, replace))

AsyncParsed(p, parsed) ==
    AsyncReplaced(p, shTasks[p].cacheKey,
                  NormalizeLineEndings(ShDecoded(shTasks[p].arg.originalContent)),
                  NormalizeLineEndings(parsed.searchContent),
                  NormalizeLineEndings(parsed.replaceContent))

AsyncFinish(p) ==
    /\ shTasks[p].pc = "chunking"
    /\ AsyncParsed(p, parseDiffContent(shTasks[p].arg.diffContent))
    /\ UNCHANGED shHashers
    /\ ShTaskVarsUnchanged

NextAsync ==
    \E p \in ShCallIds :
        AsyncStart(p) \/ AsyncDigest(p) \/ AsyncLookup(p) \/ AsyncFinish(p)

SpecAsync == Init /\ [][NextAsync]_vars

\* What the call of task p returns when it runs alone on a fresh instance.
AsyncAlone(p) == ShRun(<<>>, shTasks[p].arg).result

\* The entry's value is the result of the content and the diff its key was
\* computed from.
AsyncEntryTrue(entry) ==
    LET alone == ShApplyDiff(<<>>, Plain(entry.key[2]), entry.key[3], Undefined).result
    IN  alone.success /\ alone.content = entry.value

\* C14: with calls in flight together, each call returns the result it
\* returns when run alone, and every hot cache entry maps the key of a
\* content and a diff to the result computed from that content and diff.
C14_ConcurrentCallsIsolated ==
    /\ \A p \in ShCallIds :
          shTasks[p].pc = "returned"
              => /\ SameOutput(shTasks[p].result, AsyncAlone(p))
                 /\ ~shTasks[p].result.success
                       => shTasks[p].result.error = AsyncAlone(p).error
    /\ \A i \in 1..Len(hotCache) : AsyncEntryTrue(hotCache[i])

-----------------------------------------------------------------------------
(* Parallel strategy.  The diff text is the sequence of line records of the *)
(* Optimized Unified model; a hunk's content is the sequence of its lines,  *)
(* the header line first.                                                    *)

PAR_CHUNK_SIZE == 1024 * 1024

\* ParallelDiffStrategy.parseHunkHeader: [old start, new start], or a throw.
ParParseHunkHeader(line) ==
    IF line.kind = "header"
    THEN [threw |-> FALSE, value |-> <<line.oldStart, line.newStart>>]
    ELSE [threw |-> TRUE, error |-> "Invalid hunk header format"]

\* currentHunk after one more line that is not a header.
ParHunkWith(hunk, line) ==
    [start |-> hunk.start,
     end |-> IF StartsWith(line, "+") THEN hunk.end + 1 ELSE hunk.end,
     lines |-> Append(hunk.lines, line)]

\* ParallelDiffStrategy.parseUnifiedDiff from line i on; cur holds
\* currentHunk (empty for null).
RECURSIVE ParParseFrom(_, _, _, _)
ParParseFrom(lines, i, hunks, cur) ==
    IF i > Len(lines) THEN [threw |-> FALSE, hunks |-> hunks \o cur]
    ELSE IF StartsWithAtAt(lines[i])
        THEN IF ParParseHunkHeader(lines[i]).threw
             THEN [threw |-> TRUE, error |-> ParParseHunkHeader(lines[i]).error]
             ELSE ParParseFrom(lines, i + 1, hunks \o cur,
                               << [start |-> ParParseHunkHeader(lines[i]).value[1],
                                   end |-> ParParseHunkHeader(lines[i]).value[1],
                                   lines |-> <<lines[i]>>] >>)
    ELSE IF cur # <<>>
        THEN ParParseFrom(lines, i + 1, hunks, <<ParHunkWith(cur[1], lines[i])>>)
    ELSE ParParseFrom(lines, i + 1, hunks, cur)

ParParseUnifiedDiff(diffLines) == ParParseFrom(diffLines, 1, <<>>, <<>>)

\* splitIntoChunks: runs of ceil(lines / MAX_WORKERS) lines, each joined.
RECURSIVE ParChunksFrom(_, _, _)
ParChunksFrom(lines, i, chunkSize) ==
    IF i >= Len(lines) THEN <<>>
    ELSE <<Join(JsSlice(lines, i, i + chunkSize), <<"\n">>)>>
         \o ParChunksFrom(lines, i + chunkSize, chunkSize)

CeilDiv(a, b) == (a + b - 1) \div b

ParLinesChunked(lines, maxWorkers) ==
    ParChunksFrom(lines, 0, CeilDiv(Len(lines), maxWorkers))

splitIntoChunks(content, maxWorkers) ==
    ParLinesChunked(Split(content, "\n"), maxWorkers)

\* Math.floor(hunk.start / (CHUNK_SIZE / numChunks)).
ParChunkIndex(hunk, numChunks) == (hunk.start * numChunks) \div PAR_CHUNK_SIZE

\* splitDiff: the hunks of chunk number index (0-based), their lines one
\* after the other; a hunk whose index is numChunks or more is in no chunk.
RECURSIVE ParDiffChunkFrom(_, _, _, _)
ParDiffChunkFrom(hunks, h, index, numChunks) ==
    IF h > Len(hunks) THEN <<>>
    ELSE (IF ParChunkIndex(hunks[h], numChunks) = index
          THEN hunks[h].lines ELSE <<>>)
         \o ParDiffChunkFrom(hunks, h + 1, index, numChunks)

\* The loop over the lines of one hunk in processChunk: st holds lines,
\* lineIndex and appliedLines.
ParApplyLine(st, line) ==
    IF StartsWith(line, "+")
        THEN [lines |-> JsSplice(st.lines, st.lineIndex, 0, <<Tail(line.text)>>),
              lineIndex |-> st.lineIndex + 1,
              appliedLines |-> st.appliedLines + 1]
    ELSE IF StartsWith(line, "-")
        THEN [st EXCEPT !.lines = JsSplice(st.lines, st.lineIndex, 1, <<>>)]
    ELSE IF StartsWith(line, " ")
        THEN [st EXCEPT !.lineIndex = st.lineIndex + 1]
    ELSE st

RECURSIVE ParApplyLines(_, _, _)
ParApplyLines(st, hunkLines, i) ==
    IF i > Len(hunkLines) THEN st
    ELSE ParApplyLines(ParApplyLine(st, hunkLines[i]), hunkLines, i + 1)

RECURSIVE ParApplyHunks(_, _, _)
ParApplyHunks(st, hunks, h) ==
    IF h > Len(hunks) THEN st
    ELSE ParApplyHunks(ParApplyLines([st EXCEPT !.lineIndex = hunks[h].start],
                                     hunks[h].lines, 1),
                       hunks, h + 1)

ParChunkDone(st) ==
    [content |-> Join(st.lines, <<"\n">>), appliedLines |-> st.appliedLines]

\* processChunk(chunk, diffChunk); diffChunk holds whole hunks, so parsing it
\* again does not throw.
processChunk(chunk, diffChunk) ==
    ParChunkDone(ParApplyHunks([lines |-> Split(chunk, "\n"), lineIndex |-> 0,
                                appliedLines |-> 0],
                               ParParseUnifiedDiff(diffChunk).hunks, 1))

RECURSIVE ParSum(_)
ParSum(ns) == IF ns = <<>> THEN 0 ELSE ns[1] + ParSum(Tail(ns))

\* mergeResults and the sum of appliedLines.
ParMerged(results) ==
    [success |-> TRUE,
     content |-> Join([i \in 1..Len(results) |-> results[i].content], <<"\n">>),
     appliedLines |-> ParSum([i \in 1..Len(results) |-> results[i].appliedLines])]

ParProcessed(chunks, hunks) ==
    ParMerged([i \in 1..Len(chunks) |->
                  processChunk(chunks[i],
                               ParDiffChunkFrom(hunks, 1, i - 1, Len(chunks)))])

\* applyDiff without its catch block.
ParSplit_NoCatch(chunks, parsed) ==
    IF parsed.threw THEN [threw |-> TRUE, error |-> parsed.error]
    ELSE ParProcessed(chunks, parsed.hunks)

\* The try block of applyDiff after splitIntoChunks, and the catch block.
ParSplit(chunks, parsed) ==
    IF parsed.threw
    THEN [success |-> FALSE, error |-> "Failed to apply parallel diff",
          message |-> parsed.error]
    ELSE ParProcessed(chunks, parsed.hunks)

\* ParallelDiffStrategy.applyDiff on an instance whose MAX_WORKERS is
\* maxWorkers.
ParApplyDiff(originalContent, diffLines, maxWorkers) ==
    ParSplit(splitIntoChunks(originalContent, maxWorkers), ParParseUnifiedDiff(diffLines))

\* navigator.hardwareConcurrency || 4.
ParMaxWorkers == {1, 4}

ParRecord(content, diff, maxWorkers, result) ==
    /\ parCall' = [made |-> TRUE, content |-> content, diff |-> diff,
                   maxWorkers |-> maxWorkers, result |-> result]
    /\ UNCHANGED <<selVars, srVars, ouVars, astVars, shVars, lruVars>>

ParCall(contents, diffs, workers) ==
    \E content \in contents, diff \in diffs, maxWorkers \in workers :
        /\ ~parCall.made
        /\ ParRecord(content, diff, maxWorkers, ParApplyDiff(content, diff, maxWorkers))

ParApply == ParCall(OuContents, OuDiffs, ParMaxWorkers)

\* Diffs with a hunk that starts at line CHUNK_SIZE / 2 or CHUNK_SIZE.
ParFarDiffs ==
    { <<Header(PAR_CHUNK_SIZE, 1), Line(<<"+", "x">>)>>,
      <<Header(PAR_CHUNK_SIZE \div 2, 1), Line(<<"+", "x">>)>>,
      <<Header(1, 1), Line(<<"+", "x">>), Header(PAR_CHUNK_SIZE, 1), Line(<<"-", "a">>)>> }

ParApplyFar == ParCall(OuContents, ParFarDiffs, ParMaxWorkers)

NextPar == ParApply \/ ParApplyFar

SpecPar == Init /\ [][NextPar]_vars

\* C15: the Parallel strategy never answers with success a diff with a hunk
\* one of whose context lines does not equal the corresponding original line;
\* it answers with the context-mismatch failure.
C15_ParallelChecksContext ==
    (parCall.made /\ HasContextMismatch(parCall.content, parCall.diff))
        => ~parCall.result.success

-----------------------------------------------------------------------------
(* AST-Aware strategy: deletions and unsupported languages *)

AstAnyContents ==
    { <<"a", ";">>, <<"a", ";", "\n", "b", ";">>, <<"c">> }

AstAnyDiffs ==
    { <<Header(0, 0), Line(<<"-", "a", ";">>)>>,
      <<Header(1, 1), Line(<<"-", "b", ";">>)>>,
      <<Header(0, 0), Line(<<"+", "b", ";">>)>>,
      <<Header(0, 0), Line(<<"+", "c">>), Line(<<"+", "b", ";">>)>>,
      <<Header(5, 5), Line(<<"+", "b", ";">>)>>,
      <<BadHeader>> }

AstAnyPaths ==
    { Undefined, Path(<<"m", ".", "t", "s">>), Path(<<"m", ".", "j", "s">>),
      Path(<<"m", ".", "g", "o">>), Path(<<"m">>) }

AstApplyAny == AstCall(AstAnyContents, AstAnyDiffs, AstAnyPaths)

NextAst == AstApplyAny \/ AstReturn

SpecAst == Init /\ [][NextAst]_vars

\* The changes of the diff are one deletion whose index is that of a
\* statement of the parsed program.
AstDeletesOne(body, parsed) ==
    /\ ~parsed.threw
    /\ Len(parsed.changes) = 1
    /\ parsed.changes[1].type = "delete"
    /\ parsed.changes[1].index < Len(body)

AstDeletesExisting(c) ==
    /\ isLanguageSupported(detectLanguage(c.filePath))
    /\ ~ParseProgram(c.originalContent).threw
    /\ AstDeletesOne(ParseProgram(c.originalContent).ast.program.body,
                     parseDiffToAstChanges(c.diffLines))

\* The program text without the statement the deletion addresses.
AstWithout(body, index) == Join(JsSplice(body, index, 1, <<>>), <<"\n">>)

\* C16: on a supported language, a diff with one removed line that addresses
\* an existing top-level statement succeeds, and the output is the program
\* without that statement, the others kept in order.
C16_DeletionRemovesStatement ==
    (astCall.made /\ AstDeletesExisting(astCall.arg))
        => /\ astCall.result.success
           /\ astCall.result.content
                = AstWithout(ParseProgram(astCall.arg.originalContent).ast.program.body,
                             parseDiffToAstChanges(astCall.arg.diffLines).changes[1].index)

\* The path has a last dot-separated segment that is none of js, jsx, ts, tsx.
AstUnsupportedPath(filePath) ==
    /\ filePath.kind = "string"
    /\ filePath.value # <<>>
    /\ toLowerCase(SplitDotPop(filePath.value))
          \notin { <<"j","s">>, <<"j","s","x">>, <<"t","s">>, <<"t","s","x">> }

-----------------------------------------------------------------------------
(* Smart Hybrid: search text that is absent, and the replacement text *)

ShAnyContents ==
    { Plain(<<"a">>), Plain(<<"a", "\r", "\n", "c">>), Plain(<<"c", "a">>),
      Base64(<<CBOR_TAG, 0>>, <<"a">>) }

ShAnyDiffs ==
    { SrBlock(<<"a">>, <<"x">>), SrBlock(<<"b">>, <<"x">>),
      SrBlock(<<"a", "\r", "\n", "c">>, <<"x">>),
      SrBlock(<<"a">>, <<"$", "&", "b">>),
      Join(<<searchMarker, <<"a">>, dividerMarker, <<"x">>>>, <<"\n">>) }

ShApplyAny == ShCall(ShAnyContents, ShAnyDiffs, ShPaths)

NextSh == ShApplyAny \/ ShReturn \/ ShExpire

SpecSh == Init /\ [][NextSh]_vars

\* The diff of the call has both sections.
ShParses(c) == ~parseDiffContent(c.diffContent).threw

\* The search text of the call, line endings normalised, occurs in the
\* decoded original, line endings normalised.
ShSearchOccurs(c) ==
    IndexOfStr(NormalizeLineEndings(ShDecoded(c.originalContent)),
               NormalizeLineEndings(parseDiffContent(c.diffContent).searchContent)) # 0

\* C18: a call whose search text does not occur in the original returns the
\* failure 'Search content not found in original content' and leaves the hot
\* cache as it was and the warm cache unwritten.
C18_AbsentSearchFails ==
    (shCall.made /\ ShParses(shCall.arg) /\ ~ShSearchOccurs(shCall.arg))
        => /\ ~shCall.result.success
           /\ shCall.result.error = "Search content not found in original content"
           /\ hotCache = shCall.before
           /\ ~shCall.warmSet

\* A failing call for an absent search text on an instance whose hot cache
\* holds an entry.
C18_Witness ==
    /\ shCall.made
    /\ ShParses(shCall.arg)
    /\ ~ShSearchOccurs(shCall.arg)
    /\ ~shCall.result.success
    /\ shCall.before # <<>>

\* text with the first occurrence of search replaced by repl, character for
\* character.
ReplacedLiterally(text, search, repl) ==
    SubSeq(text, 1, IndexOfStr(text, search) - 1) \o repl
        \o SubSeq(text, IndexOfStr(text, search) + Len(search), Len(text))

ShExpected(c) ==
    ReplacedLiterally(NormalizeLineEndings(ShDecoded(c.originalContent)),
                      NormalizeLineEndings(parseDiffContent(c.diffContent).searchContent),
                      NormalizeLineEndings(parseDiffContent(c.diffContent).replaceContent))

\* C19: on a cache miss with the search text present the call succeeds and
\* its content is the original with the first occurrence of the search text
\* replaced by the replacement text as it stands.
C19_ReplacementIsLiteral ==
    (shCall.made /\ ~shCall.cacheHit /\ ShParses(shCall.arg) /\ ShSearchOccurs(shCall.arg))
        => /\ shCall.result.success
           /\ shCall.result.content = ShExpected(shCall.arg)

-----------------------------------------------------------------------------
(* The five strategies side by side: one instance of one strategy is used  *)
(* in a run.                                                                *)

\* No call was made on an instance of another strategy.
SrUnused == ~srCall.made /\ srCalls = 0
OuUnused == ~ouCall.made
ParUnused == ~parCall.made
AstUnused == ~astCall.made /\ astCalls = 0
ShUnused == ~shCall.made /\ shCalls = 0

AllSrContents == { <<"b">>, <<" ", "b", "\n", "b">> }

AllSrDiffs ==
    { SrBlock(<<"b">>, <<"x">>), SrBlock(<<>>, <<"x">>), SrBlock(<<"a">>, <<>>),
      Join(<<searchMarker, dividerMarker, <<"x">>, replaceMarker>>, <<"\n">>),
      Join(<<searchMarker, <<"b">>, dividerMarker, <<"x">>>>, <<"\n">>) }

AllSrRanges ==
    { [startLine |-> Undefined, endLine |-> Undefined],
      [startLine |-> Num(1), endLine |-> Num(1)],
      [startLine |-> Num(2), endLine |-> Num(1)],
      [startLine |-> Num(0), endLine |-> Num(3)],
      [startLine |-> Num(1), endLine |-> Undefined] }

AllUnifiedDiffs ==
    { <<BadHeader>>,
      <<Line(<<"+", "x">>)>>,
      <<Header(1, 1), Line(<<"-", "a">>), Line(<<"+", "x">>)>>,
      <<Header(1, 1), Line(<<" ", "b">>)>>,
      <<Header(1025, 1), Line(<<"+", "x">>)>>,
      <<Header(1, 1), Line(<<"+", "x">>), BadHeader>> }

OuCall(contents, diffs, options) ==
    \E content \in contents, diff \in diffs, opt \in options :
        /\ ~ouCall.made
        /\ ouCall' = [made |-> TRUE, content |-> content, diff |-> diff, options |-> opt,
                      result |-> OuApplyDiff(content, diff, opt.size,
                                             opt.hardwareConcurrency)]
        /\ UNCHANGED <<selVars, srVars, astVars, shVars, parVars, lruVars>>

AllSr ==
    /\ OuUnused /\ ParUnused /\ AstUnused /\ ShUnused
    /\ SrCall(AllSrContents, AllSrDiffs, AllSrRanges, {<<1, 1>>, <<1, 2>>}, {BUFFER_LINES})

AllOu ==
    /\ SrUnused /\ ParUnused /\ AstUnused /\ ShUnused
    /\ OuCall(OuContents, AllUnifiedDiffs, OuOptions)

AllPar ==
    /\ SrUnused /\ OuUnused /\ AstUnused /\ ShUnused
    /\ ParCall(OuContents, AllUnifiedDiffs, ParMaxWorkers)

AllAst ==
    /\ SrUnused /\ OuUnused /\ ParUnused /\ ShUnused
    /\ AstApplyAny

AllSh ==
    /\ SrUnused /\ OuUnused /\ ParUnused /\ AstUnused
    /\ ShApplyAny

NextAll == AllSr \/ AllOu \/ AllPar \/ AllAst \/ AstReturn \/ AllSh \/ ShReturn \/ ShExpire

SpecAll == Init /\ [][NextAll]_vars

\* What applyDiff handed back is a DiffResult: a success with content and no
\* error, or a failure with an error and no content.
IsDiffResult(r) ==
    /\ "success" \in DOMAIN r
    /\ IF r.success
       THEN "content" \in DOMAIN r /\ "error" \notin DOMAIN r
       ELSE "error" \in DOMAIN r /\ "content" \notin DOMAIN r

\* C20: every applyDiff call of each of the five strategies returns a
\* DiffResult, a success with content or a failure with an error; no error
\* raised inside the call leaves it as an exception.
C20_AlwaysDiffResult ==
    /\ srCall.made => IsDiffResult(srCall.result)
    /\ ouCall.made => IsDiffResult(ouCall.result)
    /\ parCall.made => IsDiffResult(parCall.result)
    /\ astCall.made => IsDiffResult(astCall.result)
    /\ shCall.made => IsDiffResult(shCall.result)

\* A Parallel call whose diff has a hunk header the parser rejects: the error
\* is raised inside the call and comes back as a failure.
C20_Witness ==
    /\ parCall.made
    /\ ParParseUnifiedDiff(parCall.diff).threw
    /\ ~parCall.result.success
    /\ parCall.result.message = "Invalid hunk header format"

-----------------------------------------------------------------------------
(* Search-Replace: what a successful call writes *)

\* A block whose sections are the lines given (one empty line: an empty
\* section).
SrBlockOf(searchLines, replaceLines) ==
    Join(<<searchMarker>> \o searchLines \o <<dividerMarker>> \o replaceLines
            \o <<replaceMarker>>, <<"\n">>)

OutDocLines == { <<"b">>, <<" ", "b">>, <<" ", " ", "b">>, <<"a">> }

OutContents == {Join(ls, <<"\n">>) : ls \in SeqsUpTo(OutDocLines, 2)}

OutSearches == { <<<<"b">>>>, <<<<" ", "b">>>>, <<<<" ", " ", "b">>>>, <<<<>>>> }

OutReplaceLines == { <<"x">>, <<" ", "x">>, <<" ", " ", "x">> }

OutReplaces == SeqsUpTo(OutReplaceLines, 2) \cup { <<<<>>>> }

OutDiffs == {SrBlockOf(se, re) : se \in OutSearches, re \in OutReplaces}

OutRanges ==
    { [startLine |-> Undefined, endLine |-> Undefined],
      [startLine |-> Num(1), endLine |-> Num(1)],
      [startLine |-> Num(2), endLine |-> Num(2)] }

SrApplyOut == SrCall(OutContents, OutDiffs, OutRanges, {<<1, 1>>}, {BUFFER_LINES})

NextOut == SrApplyOut

SpecOut == Init /\ [][NextOut]_vars

SrReplaceOf(c) ==
    IF MatchDiff(c.diffContent).replaceContent = <<>> THEN <<>>
    ELSE SplitLines(MatchDiff(c.diffContent).replaceContent)

IndentLen(line) == Len(getIndent(line))

\* The length the claim gives the indentation of replacement line n, the
\* match being at 0-based index i.
ExpectedIndent(originalLines, searchLines, replaceLines, i, n) ==
    Max(0, IndentLen(originalLines[i + 1])
             + (IndentLen(replaceLines[n]) - IndentLen(searchLines[1])))

\* Replacement line n as the output has it, the match being at index i.
EmittedLine(result, n) == SplitLines(result.content)[result.matchIndex + n]

SrSucceeded == srCall.made /\ SrWellFormed /\ srCall.result.success

\* C21: on success every replacement line is written with an indentation of
\* length max(0, m + (r - s)): m that of the first matched line, s that of the
\* first search line, r that of the replacement line.
C21_IndentationFollowsMatch ==
    (SrSucceeded /\ SrSearchOf(srCall.arg) # <<>>)
        => \A n \in 1..Len(SrReplaceOf(srCall.arg)) :
              IndentLen(EmittedLine(srCall.result, n))
                = ExpectedIndent(SrOriginalOf(srCall.arg), SrSearchOf(srCall.arg),
                                 SrReplaceOf(srCall.arg), srCall.result.matchIndex, n)

\* A success whose matched line and search line are indented alike and not
\* at depth 0, with two replacement lines of different depths.
C21_Witness ==
    /\ SrSucceeded
    /\ SrSearchOf(srCall.arg) # <<>>
    /\ Len(SrReplaceOf(srCall.arg)) = 2
    /\ IndentLen(SrReplaceOf(srCall.arg)[1]) # IndentLen(SrReplaceOf(srCall.arg)[2])
    /\ IndentLen(SrSearchOf(srCall.arg)[1]) > 0
    /\ IndentLen(SrOriginalOf(srCall.arg)[srCall.result.matchIndex + 1])
          = IndentLen(SrSearchOf(srCall.arg)[1])

-----------------------------------------------------------------------------
(* AST-Aware: validation of a batch, the cache bound, skipped changes *)

\* The call reaches the parsed tree of a supported language and its diff
\* parses.
AstReachesChanges(c) ==
    /\ isLanguageSupported(detectLanguage(c.filePath))
    /\ ~ParseProgram(c.originalContent).threw
    /\ ~parseDiffToAstChanges(c.diffLines).threw

\* The errors validateChanges finds in the changes of the call.
AstErrorsOf(c) ==
    AstErrorsFrom(parseDiffToAstChanges(c.diffLines).changes, 1,
                  ParseProgram(c.originalContent).ast)

\* The tree the cache holds for the content is the tree the parser gives.
AstTreeIntact(cache, content) ==
    AstCacheIndex(cache, content) # 0
        => cache[AstCacheIndex(cache, content)].ast = ParseProgram(content).ast

\* C22: a diff with at least one invalid change is answered with the failure
\* that lists the path and message of each invalid change; no change is
\* applied and the cached tree of the original content stays as parsed.
C22_InvalidChangeAbortsBatch ==
    (astCall.made /\ AstReachesChanges(astCall.arg) /\ AstErrorsOf(astCall.arg) # <<>>)
        => /\ ~astCall.result.success
           /\ astCall.result.error = "Invalid AST changes"
           /\ "errors" \in DOMAIN astCall.result
           /\ astCall.result.errors = AstErrorsOf(astCall.arg)
           /\ AstTreeIntact(astCache, astCall.arg.originalContent)

\* The entry of the smallest lastUsed stamp of a cache that is not empty.
AstLeastRecent(cache) ==
    CHOOSE i \in 1..Len(cache) : \A j \in 1..Len(cache) : cache[i].lastUsed <= cache[j].lastUsed

\* The set of the call found the cache full and did not find the content
\* in it.
AstSetOnFull(c, before) ==
    /\ Len(before) >= MaxCacheSize
    /\ before # <<>>
    /\ AstCacheIndex(before, c.arg.originalContent) = 0
    /\ c.parsed
    /\ ~ParseProgram(c.arg.originalContent).threw

\* C24: the AST cache never holds more than maxSize trees, and a set on a
\* full cache removes an entry of the smallest last-used time.
C24_AstCacheBounded ==
    /\ Len(astCache) <= MaxCacheSize
    /\ (astCall.made /\ AstSetOnFull(astCall, astCall.before))
          => AstCacheIndex(astCache, astCall.before[AstLeastRecent(astCall.before)].key) = 0

\* C30: a successful call applied every change of its diff: appliedLines is
\* the number of changes parsed from the diff.
C30_SuccessAppliesAll ==
    (astCall.made /\ astCall.result.success)
        => astCall.result.appliedLines
              = Len(parseDiffToAstChanges(astCall.arg.diffLines).changes)

-----------------------------------------------------------------------------
(* Search-Replace: the LRUCache class on its own *)

LruMaxSize == 2
MaxLruOps == 5

LruValues == {0, 1}

LruHas(cache, key) == \E i \in 1..Len(cache) : cache[i].key = key

LruKeysOf(cache) == {cache[i].key : i \in 1..Len(cache)}

\* The book-keeping after an operation that left the cache as after: keys
\* that went lose their numbers, the key of the operation gets number n as
\* born if its entry is new and as used if touched.
LruBorn(born, before, after, key, n) ==
    [k \in LruKeys |->
        IF ~LruHas(after, k) THEN 0
        ELSE IF k = key /\ (~LruHas(before, k)
                              \/ (Len(before) >= LruMaxSize /\ before[1].key = k))
            THEN n
        ELSE born[k]]

LruUsed(used, born, after, key, touched, n) ==
    [k \in LruKeys |->
        IF ~LruHas(after, k) THEN 0
        ELSE IF k = key /\ (touched \/ born[k] = n) THEN n
        ELSE used[k]]

LruGetDone(key, got, n) ==
    lru' = [cache |-> got.cache, born |-> lru.born,
            used |-> LruUsed(lru.used, lru.born, got.cache, key, got.hit, n),
            ops |-> n,
            last |-> [op |-> "get", key |-> key, hit |-> got.hit]]

\* cache.get(key).
LruGetOp ==
    \E key \in LruKeys :
        /\ lru.ops < MaxLruOps
        /\ LruGetDone(key, LruGet(lru.cache, key), lru.ops + 1)
        /\ UNCHANGED <<selVars, srVars, ouVars, astVars, shVars, parVars>>

LruSetDone(key, after, born, n) ==
    lru' = [cache |-> after, born |-> born,
            used |-> LruUsed(lru.used, born, after, key, FALSE, n),
            ops |-> n,
            last |-> [op |-> "set", key |-> key,
                      full |-> Len(lru.cache) >= LruMaxSize,
                      evicted |-> LruKeysOf(lru.cache) \ LruKeysOf(after),
                      before |-> [cache |-> lru.cache, born |-> lru.born,
                                  used |-> lru.used]]]

\* cache.set(key, value).
LruSetOp ==
    \E key \in LruKeys, value \in LruValues :
        /\ lru.ops < MaxLruOps
        /\ LruSetDone(key, LruSet(lru.cache, LruMaxSize, key, value),
                      LruBorn(lru.born, lru.cache, LruSet(lru.cache, LruMaxSize, key, value),
                              key, lru.ops + 1),
                      lru.ops + 1)
        /\ UNCHANGED <<selVars, srVars, ouVars, astVars, shVars, parVars>>

NextLru == LruGetOp \/ LruSetOp

SpecLru == Init /\ [][NextLru]_vars

\* The keys held whose number in stamps is the smallest.
LruEarliest(held, stamps) ==
    {k \in LruKeysOf(held.cache) :
        \A j \in LruKeysOf(held.cache) : stamps[k] <= stamps[j]}

\* The last operation was a set that found the cache full.
LruSetOnFull == lru.last.op = "set" /\ lru.last.full

\* C23: a set that finds the cache full removes the entry that was inserted
\* earliest, even if that entry has been read since.
C23_EvictsEarliestInserted ==
    LruSetOnFull
        => lru.last.evicted \subseteq LruEarliest(lru.last.before, lru.last.before.born)

\* C23 as the code has it: a set that finds the cache full removes the entry
\* whose last insertion or successful read is the earliest, and the cache
\* never holds more than maxSize entries.
C23_EvictsLeastRecentlyUsed ==
    /\ Len(lru.cache) <= LruMaxSize
    /\ LruSetOnFull
          => /\ lru.last.evicted \subseteq LruEarliest(lru.last.before, lru.last.before.used)
             /\ (lru.last.evicted = {} => lru.cache[Len(lru.cache)].key = lru.last.key)

\* A set on a full cache that removed an entry inserted later than another
\* entry, which had been read since.
C23_Witness ==
    /\ LruSetOnFull
    /\ lru.last.evicted # {}
    /\ \E k \in LruKeysOf(lru.last.before.cache) :
          /\ k \notin lru.last.evicted
          /\ \A e \in lru.last.evicted :
                lru.last.before.born[k] < lru.last.before.born[e]

-----------------------------------------------------------------------------
(* Search-Replace: the windows the scan looks at *)

\* The call has no line range, or a range of lines of the document.
SrRangeFine(c) ==
    \/ SrNoRange(c)
    \/ /\ Truthy(c.startLine) /\ Truthy(c.endLine)
       /\ c.startLine.value <= c.endLine.value
       /\ c.endLine.value <= Len(SrOriginalOf(c))

\* The 0-based start indexes of the windows of the search range: the whole
\* document without a range, the range widened by bufferLines otherwise.
SrRangeStarts(c, n, k) ==
    IF SrNoRange(c) THEN 0..(n - k)
    ELSE Max(0, c.startLine.value - (c.bufferLines + 1))
            ..(Min(n, c.endLine.value + c.bufferLines) - k)

\* Some window of the search range scores at least the threshold.
SrSomeWindowQualifies(c) ==
    \E i \in SrRangeStarts(c, Len(SrOriginalOf(c)), Len(SrSearchOf(c))) :
        RatGe(getSimilarity(<<>>,
                            Join(SrWindow(SrOriginalOf(c), i, Len(SrSearchOf(c))), <<"\n">>),
                            Join(SrSearchOf(c), <<"\n">>)).value,
              c.fuzzyThreshold)

\* C25: when some window of the search range, at any start index, scores at
\* least the threshold, the call succeeds.
C25_QualifyingWindowFound ==
    ( /\ srCall.made /\ SrWellFormed
      /\ SrSearchOf(srCall.arg) # <<>>
      /\ SrRangeFine(srCall.arg)
      /\ SrSomeWindowQualifies(srCall.arg) )
        => srCall.result.success

-----------------------------------------------------------------------------
(* Search-Replace: the lines of the output *)

\* The replacement lines as written at a match whose first line is `matched`.
SrIndented(replaceLines, matched, searchLines) ==
    [n \in 1..Len(replaceLines) |->
        IndentReplaceLine(replaceLines[n], getIndent(matched),
                          Len(getIndent(FirstOrEmpty(searchLines))))]

\* Original lines 1..i, the re-indented replacement lines, original lines
\* i+k+1..N.
SrExpectedLines(originalLines, searchLines, replaceLines, i) ==
    SubSeq(originalLines, 1, i)
        \o SrIndented(replaceLines,
                      FirstOrEmpty(JsSlice(originalLines, i, i + Len(searchLines))),
                      searchLines)
        \o SubSeq(originalLines, i + Len(searchLines) + 1, Len(originalLines))

\* C26: a success with match index i and k search lines writes exactly the
\* original lines 1..i, the re-indented replacement lines and the original
\* lines i+k+1..N, joined by the line ending; an empty search with
\* startLine = endLine = L has i = L - 1 and removes nothing.
C26_OutputIsBeforeReplacementAfter ==
    SrSucceeded
        => /\ srCall.result.content
                = Join(SrExpectedLines(SrOriginalOf(srCall.arg), SrSearchOf(srCall.arg),
                                       SrReplaceOf(srCall.arg), srCall.result.matchIndex),
                       <<"\n">>)
           /\ (SrSearchOf(srCall.arg) = <<>>)
                => srCall.result.matchIndex = srCall.arg.startLine.value - 1

-----------------------------------------------------------------------------
(* Parallel: where the hunks go *)

ParHunksOf(c) == ParParseUnifiedDiff(c.diff).hunks

ParNumChunks(c) == Len(splitIntoChunks(c.content, c.maxWorkers))

\* The number of chunks whose diff chunk receives hunk h.
ParChunksHolding(c, h) ==
    Cardinality({index \in 0..(ParNumChunks(c) - 1) :
                    ParChunkIndex(ParHunksOf(c)[h], ParNumChunks(c)) = index})

\* The lines of all hunks that start with prefix.
ParLinesWith(c, prefix) ==
    ParSum([h \in 1..Len(ParHunksOf(c)) |->
               Len(SelectSeq(ParHunksOf(c)[h].lines, LAMBDA l : StartsWith(l, prefix)))])

\* C27: a call that answers success has given every parsed hunk to exactly
\* one chunk and has applied it: the added lines of all hunks are counted.
C27_NoHunkDropped ==
    (parCall.made /\ parCall.result.success)
        => /\ \A h \in 1..Len(ParHunksOf(parCall)) : ParChunksHolding(parCall, h) = 1
           /\ parCall.result.appliedLines = ParLinesWith(parCall, "+")

\* The hunks of the diff applied to the document as one chunk.
ParUnchunked(content, diffLines) == processChunk(content, diffLines).content

\* C28: splitting and merging lose nothing and keep positions: a diff without
\* hunks gives back the original, and any diff gives what the same hunks give
\* on the document as a whole.
C28_ChunkingIsLossless ==
    (parCall.made /\ ~ParParseUnifiedDiff(parCall.diff).threw)
        => /\ parCall.result.success
           /\ (ParHunksOf(parCall) = <<>>) => parCall.result.content = parCall.content
           /\ parCall.result.content = ParUnchunked(parCall.content, parCall.diff)

-----------------------------------------------------------------------------
(* Optimized Unified: what a hunk replaces *)

OuHunksOf(c) == parseUnifiedDiff(c.diff).hunks

OuLinesOf(c) == Split(c.content, "\n")

\* The diff of the call is one hunk without context lines whose removed
\* lines are the original lines from line hunk.start on.
OuOneHunkAtItsLines(c) ==
    /\ ~parseUnifiedDiff(c.diff).threw
    /\ Len(OuHunksOf(c)) = 1
    /\ OuHunksOf(c)[1].context = <<>>
    /\ OuHunksOf(c)[1].start >= 1
    /\ OuHunksOf(c)[1].start + Len(OuHunksOf(c)[1].removed) - 1 <= Len(OuLinesOf(c))
    /\ OuHunksOf(c)[1].removed
          = SubSeq(OuLinesOf(c), OuHunksOf(c)[1].start,
                   OuHunksOf(c)[1].start + Len(OuHunksOf(c)[1].removed) - 1)

\* The lines before line hunk.start, the added lines, the lines after the
\* removed ones.
OuExpected(lines, hunk) ==
    Join(SubSeq(lines, 1, hunk.start - 1) \o hunk.added
            \o SubSeq(lines, hunk.start + Len(hunk.removed), Len(lines)),
         <<"\n">>)

\* C29: a successful call takes the old start of a hunk as a line number: the
\* removed lines there are replaced by the added lines and every other line
\* stays as it was.
C29_HunkReplacesItsLines ==
    (ouCall.made /\ ouCall.result.success /\ OuOneHunkAtItsLines(ouCall))
        => ouCall.result.content = OuExpected(OuLinesOf(ouCall), OuHunksOf(ouCall)[1])

=============================================================================
